---- MODULE Spec2Model ----
(***************************************************************************)
(* Model of the MAGI calculator's tax computation core:                    *)
(*   src/src/calculators/tax_calculator.py   (TaxCalculator)               *)
(*   src/src/calculators/roth_converter.py   (RothConverter)               *)
(*   src/src/calculators/magi_calculator.py  (MAGICalculator)              *)
(*   src/src/calculators/income_aggregator.py, src/src/models/*.py         *)
(*                                                                         *)
(* The state is the most recent call of a public operation: its name, its  *)
(* arguments, its return value and the local values the operation computed *)
(* on the way.  Every operation is a pure function of its arguments, so an *)
(* action draws arguments from bounded sets and records what the code      *)
(* returns for them.                                                       *)
(*                                                                         *)
(* Decimal arithmetic.  Python's Decimal is exact for the sums, products   *)
(* and the division by 4 the code performs.  A Decimal is modelled as a    *)
(* fixed-point record [w |-> whole dollars, f |-> fraction] with value     *)
(* w + f / FracDen and 0 <= f < FracDen (w may be negative).  FracDen =    *)
(* 40000 makes every operation exact for whole-dollar inputs: a rate is a  *)
(* multiple of 1/10000, 0.90 of a tax in cents is a multiple of 1/1000 and *)
(* a quarter of that a multiple of 1/4000.  Rates are integers in basis    *)
(* points (Decimal("0.10") is 1000, Decimal("0.0475") is 475).             *)
(***************************************************************************)
EXTENDS Integers, Sequences, FiniteSets, TLC

VARIABLES op, args, ret, loc

\* One IncomeAggregator instance: what its two CSV files hold now, its
\* cache self._investment_income, and how often it has called the parsers
VARIABLES gains_file, transactions_file, _investment_income, parsed

instance == <<gains_file, transactions_file, _investment_income, parsed>>

vars == <<op, args, ret, loc, instance>>

----------------------------------------------------------------------------
(* Decimal *)

FracDen == 40000

RateDen == 10000

D(n) == [w |-> n, f |-> 0]

Zero == D(0)

\* A value given in dollars and cents
DC(dollars, cents) == [w |-> dollars, f |-> cents * (FracDen \div 100)]

DAdd(a, b) ==
  LET s == a.f + b.f
  IN  [w |-> a.w + b.w + (s \div FracDen), f |-> s % FracDen]

DSub(a, b) ==
  LET d == a.f - b.f
  IN  [w |-> (a.w - b.w) + (d \div FracDen), f |-> d % FracDen]

DLT(a, b) == a.w < b.w \/ (a.w = b.w /\ a.f < b.f)

DLE(a, b) == a.w < b.w \/ (a.w = b.w /\ a.f <= b.f)

DGT(a, b) == DLT(b, a)

DGE(a, b) == DLE(b, a)

\* Python's max(a, b) and min(a, b): the first argument wins a tie
DMax(a, b) == IF DGT(b, a) THEN b ELSE a

DMin(a, b) == IF DLT(b, a) THEN b ELSE a

\* x * rate, the rate given in basis points
DMulRate(x, bp) ==
  LET a  == x.w \div RateDen
      b  == x.w % RateDen
      q1 == (b * bp) \div RateDen
      r1 == (b * bp) % RateDen
      u  == r1 * (FracDen \div RateDen) + ((x.f * bp) \div RateDen)
  IN  [w |-> a * bp + q1 + (u \div FracDen), f |-> u % FracDen]

\* x / n for a positive integer n
DDivInt(x, n) ==
  LET q == x.w \div n
      r == x.w % n
      u == (r * FracDen + x.f) \div n
  IN  [w |-> q + (u \div FracDen), f |-> u % FracDen]

\* rate * 100: a rate in basis points as a percentage
RatePercent(bp) == [w |-> bp \div 100, f |-> (bp % 100) * (FracDen \div 100)]

\* Optional[Decimal]
None == << >>

Some(x) == <<x>>

\* Python truth value of an Optional[Decimal]: None and zero are false
Truthy(o) == o # None /\ o[1] # Zero

----------------------------------------------------------------------------
(* FilingStatus and the tables keyed by it *)

FilingStatus ==
  {"SINGLE", "MARRIED_FILING_JOINTLY", "MARRIED_FILING_SEPARATELY",
   "HEAD_OF_HOUSEHOLD", "QUALIFYING_WIDOW"}

\* dict.get(key, default)
Get(table, key, default) == IF key \in DOMAIN table THEN table[key] ELSE default

FEDERAL_BRACKETS ==
  [SINGLE |->
     << <<D(11925), 1000>>, <<D(48475), 1200>>, <<D(103350), 2200>>,
        <<D(197300), 2400>>, <<D(250525), 3200>>, <<D(626350), 3500>>,
        <<D(999999999), 3700>> >>,
   MARRIED_FILING_JOINTLY |->
     << <<D(23850), 1000>>, <<D(96950), 1200>>, <<D(206700), 2200>>,
        <<D(394600), 2400>>, <<D(501050), 3200>>, <<D(751600), 3500>>,
        <<D(999999999), 3700>> >>,
   MARRIED_FILING_SEPARATELY |->
     << <<D(11925), 1000>>, <<D(48475), 1200>>, <<D(103350), 2200>>,
        <<D(197300), 2400>>, <<D(250525), 3200>>, <<D(375800), 3500>>,
        <<D(999999999), 3700>> >>,
   HEAD_OF_HOUSEHOLD |->
     << <<D(17000), 1000>>, <<D(64850), 1200>>, <<D(103350), 2200>>,
        <<D(197300), 2400>>, <<D(250500), 3200>>, <<D(626350), 3500>>,
        <<D(999999999), 3700>> >>,
   QUALIFYING_WIDOW |->
     << <<D(23850), 1000>>, <<D(96950), 1200>>, <<D(206700), 2200>>,
        <<D(394600), 2400>>, <<D(501050), 3200>>, <<D(751600), 3500>>,
        <<D(999999999), 3700>> >>]

\* Mutation: the preferential rates are entered in descending order
LTCG_BRACKETS_Descending ==
  [SINGLE |->
     << <<D(48350), 2000>>, <<D(533400), 1500>>, <<D(999999999), 0>> >>,
   MARRIED_FILING_JOINTLY |->
     << <<D(96700), 2000>>, <<D(600050), 1500>>, <<D(999999999), 0>> >>,
   MARRIED_FILING_SEPARATELY |->
     << <<D(48350), 2000>>, <<D(300025), 1500>>, <<D(999999999), 0>> >>,
   HEAD_OF_HOUSEHOLD |->
     << <<D(64750), 2000>>, <<D(566700), 1500>>, <<D(999999999), 0>> >>,
   QUALIFYING_WIDOW |->
     << <<D(96700), 2000>>, <<D(600050), 1500>>, <<D(999999999), 0>> >>]

LTCG_BRACKETS ==
  [SINGLE |->
     << <<D(48350), 0>>, <<D(533400), 1500>>, <<D(999999999), 2000>> >>,
   MARRIED_FILING_JOINTLY |->
     << <<D(96700), 0>>, <<D(600050), 1500>>, <<D(999999999), 2000>> >>,
   MARRIED_FILING_SEPARATELY |->
     << <<D(48350), 0>>, <<D(300025), 1500>>, <<D(999999999), 2000>> >>,
   HEAD_OF_HOUSEHOLD |->
     << <<D(64750), 0>>, <<D(566700), 1500>>, <<D(999999999), 2000>> >>,
   QUALIFYING_WIDOW |->
     << <<D(96700), 0>>, <<D(600050), 1500>>, <<D(999999999), 2000>> >>]

STANDARD_DEDUCTIONS ==
  [SINGLE |-> D(15000),
   MARRIED_FILING_JOINTLY |-> D(30000),
   MARRIED_FILING_SEPARATELY |-> D(15000),
   HEAD_OF_HOUSEHOLD |-> D(22500),
   QUALIFYING_WIDOW |-> D(30000)]

NC_TAX_RATE == 475

NC_STANDARD_DEDUCTIONS ==
  [SINGLE |-> D(12750),
   MARRIED_FILING_JOINTLY |-> D(25500),
   MARRIED_FILING_SEPARATELY |-> D(12750),
   HEAD_OF_HOUSEHOLD |-> D(19125),
   QUALIFYING_WIDOW |-> D(25500)]

----------------------------------------------------------------------------
(* TaxCalculator.calculate_federal_ordinary_tax *)

\* Mutation: the part of the income in a bracket is measured from zero
TaxableInBracket_FromZero(income, threshold, previous_threshold) ==
  DMin(income, threshold)

\* taxable_in_bracket = min(taxable_ordinary_income, threshold) - previous_threshold
TaxableInBracket(income, threshold, previous_threshold) ==
  DSub(DMin(income, threshold), previous_threshold)

\* Mutation: the tax of a bracket replaces the tax of the brackets below it
Accumulate_Overwrite(tax, bracket_tax) == bracket_tax

\* tax += taxable_in_bracket * rate
Accumulate(tax, bracket_tax) == DAdd(tax, bracket_tax)

\* The for loop over the brackets from index i on, with the loop's locals
RECURSIVE OrdinaryLoop(_, _, _, _, _, _)
OrdinaryLoop(income, brackets, i, tax, previous_threshold, marginal_rate) ==
  IF i > Len(brackets) THEN <<tax, marginal_rate>>
  ELSE
    LET threshold == brackets[i][1]
        rate      == brackets[i][2]
    IN  IF DLE(income, previous_threshold) THEN <<tax, marginal_rate>>
        ELSE
          LET taxable_in_bracket ==
                TaxableInBracket(income, threshold, previous_threshold)
              tax2 == Accumulate(tax, DMulRate(taxable_in_bracket, rate))
          IN  IF DLE(income, threshold) THEN <<tax2, rate>>
              ELSE OrdinaryLoop(income, brackets, i + 1, tax2, threshold, rate)

\* Returns <<tax_amount, marginal_rate>>, the marginal rate in basis points
calculate_federal_ordinary_tax(taxable_ordinary_income, filing_status) ==
  IF DLE(taxable_ordinary_income, Zero) THEN <<Zero, 0>>
  ELSE OrdinaryLoop(taxable_ordinary_income,
                    Get(FEDERAL_BRACKETS, filing_status, FEDERAL_BRACKETS["SINGLE"]),
                    1, Zero, Zero, 0)

----------------------------------------------------------------------------
(* TaxCalculator.calculate_federal_ltcg_tax *)

\* Mutation: the bracket always starts at its lower threshold, wherever the
\* ordinary income ends
BracketStart_Unstacked(income_position, previous_threshold) == previous_threshold

\* bracket_start = max(income_position, previous_threshold)
BracketStart(income_position, previous_threshold) ==
  DMax(income_position, previous_threshold)

RECURSIVE LtcgLoop(_, _, _, _, _, _)
LtcgLoop(brackets, i, tax, income_position, remaining_ltcg, previous_threshold) ==
  IF i > Len(brackets) THEN tax
  ELSE
    LET threshold == brackets[i][1]
        rate      == brackets[i][2]
    IN  IF DLE(remaining_ltcg, Zero) THEN tax
        ELSE
          LET bracket_start == BracketStart(income_position, previous_threshold)
              bracket_end   == threshold
          IN  IF DGE(bracket_start, bracket_end)
              THEN LtcgLoop(brackets, i + 1, tax, income_position,
                            remaining_ltcg, threshold)
              ELSE
                LET amount_in_bracket ==
                      DMin(remaining_ltcg, DSub(bracket_end, bracket_start))
                IN  LtcgLoop(brackets, i + 1,
                             DAdd(tax, DMulRate(amount_in_bracket, rate)),
                             DAdd(income_position, amount_in_bracket),
                             DSub(remaining_ltcg, amount_in_bracket),
                             threshold)

calculate_federal_ltcg_tax(preferential_income, ordinary_income, filing_status) ==
  IF DLE(preferential_income, Zero) THEN Zero
  ELSE LtcgLoop(Get(LTCG_BRACKETS, filing_status, LTCG_BRACKETS["SINGLE"]),
                1, Zero, ordinary_income, preferential_income, Zero)

----------------------------------------------------------------------------
(* TaxCalculator.calculate_nc_state_tax *)

\* Mutation: the state taxable income is not floored at zero
calculate_nc_state_tax_NoFloor(total_income, filing_status) ==
  LET nc_standard_deduction ==
        Get(NC_STANDARD_DEDUCTIONS, filing_status, NC_STANDARD_DEDUCTIONS["SINGLE"])
      taxable_income == DSub(total_income, nc_standard_deduction)
  IN  <<taxable_income, DMulRate(taxable_income, NC_TAX_RATE)>>

\* Returns <<taxable_income, tax_amount>>
calculate_nc_state_tax(total_income, filing_status) ==
  LET nc_standard_deduction ==
        Get(NC_STANDARD_DEDUCTIONS, filing_status, NC_STANDARD_DEDUCTIONS["SINGLE"])
      taxable_income == DMax(Zero, DSub(total_income, nc_standard_deduction))
  IN  <<taxable_income, DMulRate(taxable_income, NC_TAX_RATE)>>

----------------------------------------------------------------------------
(* TaxCalculator.calculate_quarterly_payment_requirement *)

\* Underpayments below this many dollars never require payments
UNDERPAYMENT_THRESHOLD == 1000

\* 90% of the current year's tax, in basis points
SAFE_HARBOR_RATE == 9000

\* The truth value the code takes of prior_year_tax ("if prior_year_tax:")
PriorYearTaxGiven(prior_year_tax) == Truthy(prior_year_tax)

\* The reason texts, without the amounts they quote
REASON_BELOW_1000 == "Estimated underpayment is less than $1,000"

REASON_MEETS_PRIOR == "Withholding meets prior year safe harbor"

REASON_LESS_THAN_SAFE_HARBOR ==
  "Underpayment exceeds $1,000 and withholding is less than safe harbor amount"

REASON_MEETS_CURRENT == "Withholding meets 90% of current year tax"

REASON_LESS_THAN_CURRENT ==
  "Underpayment exceeds $1,000 and withholding is less than 90% of current year tax"

\* Mutation: the $1,000 test looks at the tax alone, not at what is left of it
\* after the withholding
BelowThreshold_IgnoresWithholding(total_federal_tax, federal_withholding) ==
  DLT(total_federal_tax, D(UNDERPAYMENT_THRESHOLD))

\* underpayment = total_federal_tax - federal_withholding; underpayment < 1000
BelowThreshold(total_federal_tax, federal_withholding) ==
  DLT(DSub(total_federal_tax, federal_withholding), D(UNDERPAYMENT_THRESHOLD))

\* Mutation: the amount still needed is not floored at zero
RemainingNeeded_NoFloor(safe_harbor_amount, federal_withholding) ==
  DSub(safe_harbor_amount, federal_withholding)

\* remaining_needed = max(0, safe_harbor_amount - federal_withholding)
RemainingNeeded(safe_harbor_amount, federal_withholding) ==
  DMax(Zero, DSub(safe_harbor_amount, federal_withholding))

calculate_quarterly_payment_requirement(total_federal_tax, federal_withholding, prior_year_tax, filing_status) ==
  LET underpayment == DSub(total_federal_tax, federal_withholding)
  IN  IF BelowThreshold(total_federal_tax, federal_withholding)
      THEN [required           |-> FALSE,
            estimated_payment  |-> Zero,
            total_underpayment |-> underpayment,
            reason             |-> REASON_BELOW_1000,
            safe_harbor_amount |-> Zero]
      ELSE
        LET current_year_safe_harbor == DMulRate(total_federal_tax, SAFE_HARBOR_RATE)
            given == PriorYearTaxGiven(prior_year_tax)
            safe_harbor_amount ==
              IF given THEN DMin(current_year_safe_harbor, prior_year_tax[1])
                       ELSE current_year_safe_harbor
            reason ==
              IF given
              THEN IF DGE(federal_withholding, prior_year_tax[1])
                   THEN REASON_MEETS_PRIOR
                   ELSE REASON_LESS_THAN_SAFE_HARBOR
              ELSE IF DGE(federal_withholding, current_year_safe_harbor)
                   THEN REASON_MEETS_CURRENT
                   ELSE REASON_LESS_THAN_CURRENT
            payments_required == DLT(federal_withholding, safe_harbor_amount)
            remaining_needed == RemainingNeeded(safe_harbor_amount, federal_withholding)
        IN  [required           |-> payments_required,
             estimated_payment  |-> DDivInt(remaining_needed, 4),
             total_underpayment |-> underpayment,
             reason             |-> reason,
             safe_harbor_amount |-> safe_harbor_amount]

----------------------------------------------------------------------------
(* TaxCalculator.calculate_taxes *)

\* Mutation: without an override no deduction is taken
DeductionAmount_NoDefault(filing_status, deduction) ==
  IF deduction = None THEN Zero ELSE deduction[1]

\* The deduction used: the override, or the status's standard deduction
DeductionAmount(filing_status, deduction) ==
  IF deduction = None
  THEN Get(STANDARD_DEDUCTIONS, filing_status, STANDARD_DEDUCTIONS["SINGLE"])
  ELSE deduction[1]

\* Mutation: the ordinary bucket is not floored at zero
TaxableOrdinary_NoFloor(ordinary_income, deduction_amount, total_taxable) ==
  IF total_taxable = Zero THEN Zero
  ELSE DSub(ordinary_income, deduction_amount)

TaxableOrdinary(ordinary_income, deduction_amount, total_taxable) ==
  IF total_taxable = Zero THEN Zero
  ELSE DMax(Zero, DSub(ordinary_income, deduction_amount))

\* Mutation: the part of the deduction the ordinary income did not absorb is
\* not taken off the preferential income
TaxablePreferential_NoRemainder(ordinary_income, preferential_income, deduction_amount, total_taxable) ==
  IF total_taxable = Zero THEN Zero ELSE preferential_income

\* Mutation: the whole deduction is taken off the preferential income, also
\* the part the ordinary income absorbed
TaxablePreferential_WholeDeduction(ordinary_income, preferential_income, deduction_amount, total_taxable) ==
  IF total_taxable = Zero THEN Zero
  ELSE IF DGT(ordinary_income, deduction_amount) THEN preferential_income
  ELSE DMax(Zero, DSub(preferential_income, deduction_amount))

TaxablePreferential(ordinary_income, preferential_income, deduction_amount, total_taxable) ==
  IF total_taxable = Zero THEN Zero
  ELSE IF DGT(ordinary_income, deduction_amount) THEN preferential_income
  ELSE LET remaining_deduction == DSub(deduction_amount, ordinary_income)
       IN  DMax(Zero, DSub(preferential_income, remaining_deduction))

\* Income categories and the split of the deduction over them: the locals
\* of calculate_taxes before the tax functions are called
TaxableSplit(short_term_gains, long_term_gains, dividend_income, interest_income, additional_income, filing_status, deduction) ==
  LET ordinary_income ==
        DAdd(DAdd(short_term_gains, interest_income), additional_income)
      preferential_income == DAdd(long_term_gains, dividend_income)
      total_income == DAdd(ordinary_income, preferential_income)
      deduction_amount == DeductionAmount(filing_status, deduction)
      total_taxable == DMax(Zero, DSub(total_income, deduction_amount))
      taxable_ordinary ==
        TaxableOrdinary(ordinary_income, deduction_amount, total_taxable)
      taxable_preferential ==
        TaxablePreferential(ordinary_income, preferential_income,
                            deduction_amount, total_taxable)
  IN  [ordinary_income      |-> ordinary_income,
       preferential_income  |-> preferential_income,
       total_income         |-> total_income,
       deduction_amount     |-> deduction_amount,
       total_taxable        |-> total_taxable,
       taxable_ordinary     |-> taxable_ordinary,
       taxable_preferential |-> taxable_preferential]

\* Mutation: the quotient is formed whatever the total income is
EffectiveRate_Unguarded(total_tax, total_income) ==
  [num |-> total_tax, den |-> total_income]

\* total_tax / total_income * 100 if total_income > 0 else 0.  The quotient
\* is kept as the pair it is formed from: its value is num / den * 100
\* (Decimal rounds it to 28 significant digits).
EffectiveRate(total_tax, total_income) ==
  IF DGT(total_income, Zero)
  THEN [num |-> total_tax, den |-> total_income]
  ELSE [num |-> Zero, den |-> D(1)]

\* Mutation: the state tax is computed on the federally taxable income
StateTaxBase_FederalTaxable(s) == s.total_taxable

\* The income handed to calculate_nc_state_tax: the total income
StateTaxBase(s) == s.total_income

\* Mutation: the state tax is left out of the total
TotalTax_FederalOnly(total_federal_tax, state_tax) == total_federal_tax

\* total_tax = total_federal_tax + state_tax
TotalTax(total_federal_tax, state_tax) == DAdd(total_federal_tax, state_tax)

\* Returns the TaxResult
calculate_taxes(short_term_gains, long_term_gains, dividend_income, interest_income, additional_income, filing_status, deduction, federal_withholding, prior_year_tax) ==
  LET s == TaxableSplit(short_term_gains, long_term_gains, dividend_income,
                        interest_income, additional_income, filing_status, deduction)
      ord == calculate_federal_ordinary_tax(s.taxable_ordinary, filing_status)
      federal_ordinary_tax == ord[1]
      marginal_rate == ord[2]
      federal_preferential_tax ==
        calculate_federal_ltcg_tax(s.taxable_preferential, s.taxable_ordinary,
                                   filing_status)
      total_federal_tax == DAdd(federal_ordinary_tax, federal_preferential_tax)
      nc == calculate_nc_state_tax(StateTaxBase(s), filing_status)
      total_tax == TotalTax(total_federal_tax, nc[2])
  IN  [ordinary_income          |-> s.ordinary_income,
       preferential_income      |-> s.preferential_income,
       total_income             |-> s.total_income,
       standard_deduction       |-> s.deduction_amount,
       taxable_income           |-> s.total_taxable,
       federal_ordinary_tax     |-> federal_ordinary_tax,
       federal_preferential_tax |-> federal_preferential_tax,
       total_federal_tax        |-> total_federal_tax,
       state_taxable_income     |-> nc[1],
       state_tax                |-> nc[2],
       total_tax                |-> total_tax,
       after_tax_income         |-> DSub(s.total_income, total_tax),
       effective_tax_rate       |-> EffectiveRate(total_tax, s.total_income),
       federal_marginal_rate    |-> RatePercent(marginal_rate),
       quarterly_payment_info   |->
         calculate_quarterly_payment_requirement(
           total_federal_tax, federal_withholding, prior_year_tax, filing_status)]

----------------------------------------------------------------------------
(* RothConverter.analyze_roth_opportunity *)

\* The guard "if not target_magi or target_magi <= current_magi: return None"
NoOpportunity(current_magi, target_magi) ==
  \/ ~Truthy(target_magi)
  \/ DLE(target_magi[1], current_magi)

\* Mutation: the re-run forgets the caller's deduction and takes the standard one
NewTaxResult_StandardDeduction(suggested_conversion, short_term_gains, long_term_gains, dividend_income, interest_income, additional_income, filing_status, deduction) ==
  calculate_taxes(short_term_gains, long_term_gains, dividend_income,
                  interest_income, DAdd(additional_income, suggested_conversion),
                  filing_status, None, Zero, None)

\* The re-run of the engine with the conversion added to additional income
NewTaxResult(suggested_conversion, short_term_gains, long_term_gains, dividend_income, interest_income, additional_income, filing_status, deduction) ==
  calculate_taxes(short_term_gains, long_term_gains, dividend_income,
                  interest_income, DAdd(additional_income, suggested_conversion),
                  filing_status, deduction, Zero, None)

\* Mutation: the operands of the difference are swapped
ConversionTax_Swapped(new_tax_result, current_tax_result) ==
  DSub(current_tax_result.total_tax, new_tax_result.total_tax)

\* conversion_tax = new_tax_result.total_tax - current_tax_result.total_tax
ConversionTax(new_tax_result, current_tax_result) ==
  DSub(new_tax_result.total_tax, current_tax_result.total_tax)

\* Mutation: the quotient is formed the wrong way round
ConversionRate_Inverted(conversion_tax, suggested_conversion) ==
  IF DGT(suggested_conversion, Zero)
  THEN [num |-> suggested_conversion, den |-> conversion_tax]
  ELSE [num |-> Zero, den |-> D(1)]

\* (conversion_tax / suggested_conversion) * 100 if suggested_conversion > 0
\* else 0, kept as the pair the quotient is formed from
ConversionRate(conversion_tax, suggested_conversion) ==
  IF DGT(suggested_conversion, Zero)
  THEN [num |-> conversion_tax, den |-> suggested_conversion]
  ELSE [num |-> Zero, den |-> D(1)]

\* Returns None or Some(RothConversionSuggestion)
analyze_roth_opportunity(current_magi, target_magi, short_term_gains, long_term_gains, dividend_income, interest_income, additional_income, filing_status, current_tax_result, deduction) ==
  IF NoOpportunity(current_magi, target_magi) THEN None
  ELSE
    LET suggested_conversion == DSub(target_magi[1], current_magi)
        new_tax_result ==
          NewTaxResult(suggested_conversion, short_term_gains, long_term_gains,
                       dividend_income, interest_income, additional_income,
                       filing_status, deduction)
        conversion_tax == ConversionTax(new_tax_result, current_tax_result)
    IN  Some([has_opportunity      |-> TRUE,
              current_magi         |-> current_magi,
              target_magi          |-> target_magi[1],
              suggested_conversion |-> suggested_conversion,
              conversion_tax       |-> conversion_tax,
              current_total_tax    |-> current_tax_result.total_tax,
              new_total_tax        |-> new_tax_result.total_tax,
              marginal_rate        |-> ConversionRate(conversion_tax, suggested_conversion),
              current_federal_tax  |-> current_tax_result.total_federal_tax,
              new_federal_tax      |-> new_tax_result.total_federal_tax,
              current_state_tax    |-> current_tax_result.state_tax,
              new_state_tax        |-> new_tax_result.state_tax])

----------------------------------------------------------------------------
(* InvestmentIncome, AdditionalIncome, Deductions (models/income.py) *)

\* An InvestmentIncome is [realized_gains |-> sequence of RealizedGain,
\* transactions |-> sequence of Transaction].  Of a RealizedGain the model
\* keeps term, short_term_gain_loss, long_term_gain_loss (each Optional) and
\* is_option; of a Transaction action and amount.  The properties
\* dividend_income and interest_income are named dividend_income_of and
\* interest_income_of here, the plain names being parameters of the engine.

is_short_term(g) == g.term = "Short Term"

is_long_term(g) == g.term = "Long Term"

\* The option flag of a realized gain
is_option(g) == g.is_option

is_dividend(t) == t.action = "Cash Dividend"

is_interest(t) == t.action \in {"Bond Interest", "Credit Interest"}

\* (value or Decimal(0)) of an Optional[Decimal]
OrZero(o) == IF Truthy(o) THEN o[1] ELSE Zero

\* sum(...) of the terms of a generator, given as a sequence of Decimals in
\* which an element the generator's condition filters out contributes zero
RECURSIVE SumSeq(_)
SumSeq(seq) == IF seq = << >> THEN Zero ELSE DAdd(Head(seq), SumSeq(Tail(seq)))

ShortTermValue(g) == OrZero(g.short_term_gain_loss)

LongTermValue(g) == OrZero(g.long_term_gain_loss)

Amount(t) == t.amount

IsShortTermOption(g) == is_short_term(g) /\ is_option(g)

IsShortTermNonOption(g) == is_short_term(g) /\ ~is_option(g)

short_term_capital_gains(inv) ==
  LET realized_gains == inv.realized_gains
  IN  SumSeq([i \in 1..Len(realized_gains) |->
                IF is_short_term(realized_gains[i]) THEN ShortTermValue(realized_gains[i]) ELSE Zero])

short_term_options_gains(inv) ==
  LET realized_gains == inv.realized_gains
  IN  SumSeq([i \in 1..Len(realized_gains) |->
                IF IsShortTermOption(realized_gains[i]) THEN ShortTermValue(realized_gains[i]) ELSE Zero])

short_term_non_options_gains(inv) ==
  LET realized_gains == inv.realized_gains
  IN  SumSeq([i \in 1..Len(realized_gains) |->
                IF IsShortTermNonOption(realized_gains[i]) THEN ShortTermValue(realized_gains[i]) ELSE Zero])

long_term_capital_gains(inv) ==
  LET realized_gains == inv.realized_gains
  IN  SumSeq([i \in 1..Len(realized_gains) |->
                IF is_long_term(realized_gains[i]) THEN LongTermValue(realized_gains[i]) ELSE Zero])

total_capital_gains(inv) == DAdd(short_term_capital_gains(inv), long_term_capital_gains(inv))

dividend_income_of(inv) ==
  LET transactions == inv.transactions
  IN  SumSeq([i \in 1..Len(transactions) |->
                IF is_dividend(transactions[i]) THEN Amount(transactions[i]) ELSE Zero])

interest_income_of(inv) ==
  LET transactions == inv.transactions
  IN  SumSeq([i \in 1..Len(transactions) |->
                IF is_interest(transactions[i]) THEN Amount(transactions[i]) ELSE Zero])

\* Mutation: the dividends are left out of the investment total
total_investment_income_NoDividends(inv) ==
  DAdd(total_capital_gains(inv), interest_income_of(inv))

total_investment_income(inv) == DAdd(DAdd(total_capital_gains(inv), dividend_income_of(inv)), interest_income_of(inv))

\* Mutation: the tax-exempt interest is counted in the additional income
AdditionalTotal_WithTaxExempt(a) ==
  DAdd(DAdd(DAdd(DAdd(DAdd(DAdd(a.wages, a.business_income), a.rental_income),
                      a.retirement_income), a.social_security), a.other_income),
       a.tax_exempt_interest)

\* AdditionalIncome.total: tax_exempt_interest is not part of it
AdditionalTotal(a) ==
  DAdd(DAdd(DAdd(DAdd(DAdd(a.wages, a.business_income), a.rental_income),
                 a.retirement_income), a.social_security), a.other_income)

\* Deductions.total_adjustments
total_adjustments(d) ==
  DAdd(DAdd(DAdd(DAdd(d.student_loan_interest, d.ira_contributions),
                 d.hsa_contributions), d.self_employment_tax), d.other_adjustments)

----------------------------------------------------------------------------
(* UserInputs (models/user_inputs.py) and IncomeAggregator *)

\* FilingStatus.value
FilingStatusValue ==
  [SINGLE |-> "Single",
   MARRIED_FILING_JOINTLY |-> "Married Filing Jointly",
   MARRIED_FILING_SEPARATELY |-> "Married Filing Separately",
   HEAD_OF_HOUSEHOLD |-> "Head of Household",
   QUALIFYING_WIDOW |-> "Qualifying Widow(er)"]

\* TaxYear.for_2025().standard_deductions
TaxYearStandardDeductions ==
  [SINGLE |-> D(15000),
   MARRIED_FILING_JOINTLY |-> D(30000),
   MARRIED_FILING_SEPARATELY |-> D(15000),
   HEAD_OF_HOUSEHOLD |-> D(22500),
   QUALIFYING_WIDOW |-> D(30000)]

\* UserInputs.get_standard_deduction
get_standard_deduction(user_inputs) ==
  Get(TaxYearStandardDeductions, user_inputs.filing_status, Zero)

get_additional_income(user_inputs) ==
  [wages               |-> user_inputs.wages,
   business_income     |-> user_inputs.business_income,
   rental_income       |-> user_inputs.rental_income,
   retirement_income   |-> user_inputs.retirement_income,
   social_security     |-> user_inputs.social_security,
   other_income        |-> user_inputs.other_income,
   tax_exempt_interest |-> user_inputs.tax_exempt_interest]

get_deductions(user_inputs) ==
  [standard_deduction    |-> IF user_inputs.use_standard_deduction
                             THEN get_standard_deduction(user_inputs) ELSE Zero,
   itemized_deductions   |-> IF user_inputs.use_standard_deduction
                             THEN Zero ELSE user_inputs.itemized_deductions,
   student_loan_interest |-> user_inputs.student_loan_interest,
   ira_contributions     |-> user_inputs.ira_contributions,
   hsa_contributions     |-> user_inputs.hsa_contributions,
   self_employment_tax   |-> user_inputs.self_employment_tax,
   other_adjustments     |-> user_inputs.other_adjustments]

get_income_breakdown(inv, user_inputs) ==
  LET a == get_additional_income(user_inputs)
  IN  [investment_income |->
         [short_term_capital_gains     |-> short_term_capital_gains(inv),
          short_term_options_gains     |-> short_term_options_gains(inv),
          short_term_non_options_gains |-> short_term_non_options_gains(inv),
          long_term_capital_gains      |-> long_term_capital_gains(inv),
          total_capital_gains          |-> total_capital_gains(inv),
          dividend_income              |-> dividend_income_of(inv),
          interest_income              |-> interest_income_of(inv),
          total                        |-> total_investment_income(inv)],
       additional_income |->
         [wages             |-> a.wages,
          business_income   |-> a.business_income,
          rental_income     |-> a.rental_income,
          retirement_income |-> a.retirement_income,
          social_security   |-> a.social_security,
          other_income      |-> a.other_income,
          total             |-> AdditionalTotal(a)],
       tax_exempt_interest |-> a.tax_exempt_interest]

----------------------------------------------------------------------------
(* MAGICalculator.calculate *)

\* "if user_inputs.target_magi:" then the solver is asked, else no suggestion
RothSuggestion(user_inputs, magi, inv, additional_total, tax_result) ==
  IF Truthy(user_inputs.target_magi)
  THEN analyze_roth_opportunity(
         magi, user_inputs.target_magi, short_term_capital_gains(inv),
         long_term_capital_gains(inv), dividend_income_of(inv), interest_income_of(inv),
         additional_total, user_inputs.filing_status, tax_result, None)
  ELSE None

\* Returns the MAGIResult; inv is what aggregator.load_investment_income() returns
calculate(inv, user_inputs) ==
  LET additional_income == get_additional_income(user_inputs)
      deductions == get_deductions(user_inputs)
      total_income == DAdd(total_investment_income(inv), AdditionalTotal(additional_income))
      adjustments == total_adjustments(deductions)
      agi == DSub(total_income, adjustments)
      magi_addbacks == DAdd(DAdd(additional_income.tax_exempt_interest,
                                 deductions.student_loan_interest),
                            deductions.ira_contributions)
      magi == DAdd(agi, magi_addbacks)
      tax_result ==
        calculate_taxes(short_term_capital_gains(inv), long_term_capital_gains(inv),
                        dividend_income_of(inv), interest_income_of(inv),
                        AdditionalTotal(additional_income), user_inputs.filing_status,
                        None, Zero, None)
  IN  [total_income |-> total_income,
       agi          |-> agi,
       magi         |-> magi,
       income_breakdown |-> get_income_breakdown(inv, user_inputs),
       deductions_breakdown |->
         [student_loan_interest |-> deductions.student_loan_interest,
          ira_contributions     |-> deductions.ira_contributions,
          hsa_contributions     |-> deductions.hsa_contributions,
          self_employment_tax   |-> deductions.self_employment_tax,
          other_adjustments     |-> deductions.other_adjustments,
          total_adjustments     |-> adjustments,
          standard_deduction    |-> deductions.standard_deduction,
          itemized_deductions   |-> deductions.itemized_deductions],
       filing_status |-> FilingStatusValue[user_inputs.filing_status],
       tax_year      |-> user_inputs.tax_year,
       tax_result    |-> tax_result,
       roth_suggestion |->
         RothSuggestion(user_inputs, magi, inv, AdditionalTotal(additional_income),
                        tax_result)]

----------------------------------------------------------------------------
(* TaxRules.get_irmaa_tier (calculators/tax_rules.py) *)

\* Per filing status that has a table: <<upper bound, tier label>> ascending
IRMAA_THRESHOLDS ==
  [SINGLE |->
     << <<D(106000), "Standard premium">>, <<D(133000), "Tier 1">>,
        <<D(167000), "Tier 2">>, <<D(200000), "Tier 3">>,
        <<D(500000), "Tier 4">>, <<D(999999999), "Tier 5">> >>,
   MARRIED_FILING_JOINTLY |->
     << <<D(212000), "Standard premium">>, <<D(266000), "Tier 1">>,
        <<D(334000), "Tier 2">>, <<D(400000), "Tier 3">>,
        <<D(750000), "Tier 4">>, <<D(999999999), "Tier 5">> >>,
   MARRIED_FILING_SEPARATELY |->
     << <<D(106000), "Standard premium">>, <<D(133000), "Tier 1">>,
        <<D(167000), "Tier 2">>, <<D(200000), "Tier 3">>,
        <<D(500000), "Tier 4">>, <<D(999999999), "Tier 5">> >>]

\* The table scanned: that of the status, or the Single one for a status
\* that is not listed
TaxRules_STANDARD_DEDUCTIONS ==
  [SINGLE |-> D(15000),
   MARRIED_FILING_JOINTLY |-> D(30000),
   MARRIED_FILING_SEPARATELY |-> D(15000),
   HEAD_OF_HOUSEHOLD |-> D(22500),
   QUALIFYING_WIDOW |-> D(30000)]

\* TaxRules.get_standard_deduction: STANDARD_DEDUCTIONS.get(filing_status, Decimal(0))
TaxRules_get_standard_deduction(filing_status) ==
  Get(TaxRules_STANDARD_DEDUCTIONS, filing_status, Zero)

IrmaaTable(filing_status) ==
  IF filing_status \notin DOMAIN IRMAA_THRESHOLDS
  THEN IRMAA_THRESHOLDS["SINGLE"]
  ELSE IRMAA_THRESHOLDS[filing_status]

\* Mutation: a MAGI equal to a bound falls into the tier above it
InTier_Strict(magi, threshold) == DLT(magi, threshold)

\* "if magi <= threshold"
InTier(magi, threshold) == DLE(magi, threshold)

\* The for loop over the thresholds from index i on, and the return after it
RECURSIVE IrmaaLoop(_, _, _)
IrmaaLoop(thresholds, i, magi) ==
  IF i > Len(thresholds) THEN "Tier 5"
  ELSE IF InTier(magi, thresholds[i][1]) THEN thresholds[i][2]
  ELSE IrmaaLoop(thresholds, i + 1, magi)

get_irmaa_tier(magi, filing_status) == IrmaaLoop(IrmaaTable(filing_status), 1, magi)

----------------------------------------------------------------------------
(* Inputs *)

\* Dollar amounts are drawn on a grid of multiples of Unit dollars
Unit == 5000

\* Distance in dollars at which the values next to a bracket threshold are tried
Delta == 1

Amounts(multiples) == {D(k * Unit) : k \in multiples}

\* The thresholds of a bracket table but the last, each with its neighbours
NearThresholds(brackets) ==
  {D(brackets[i][1].w + d) : i \in 1..(Len(brackets) - 1), d \in {0 - Delta, 0, Delta}}

\* A value that is no member of FilingStatus: Python checks no argument
\* type, so any object can be passed as filing_status
NotAFilingStatus == "NOT_A_FILING_STATUS"

\* What a caller passes as filing_status
FilingStatusArguments == FilingStatus \cup {NotAFilingStatus}

\* The status whose thresholds the amounts of a call are placed around
GridStatus(filing_status) ==
  IF filing_status \in FilingStatus THEN filing_status ELSE "SINGLE"

OrdinaryIncomes(filing_status) ==
  NearThresholds(FEDERAL_BRACKETS[GridStatus(filing_status)])
    \cup Amounts({0 - 1, 0, 2, 9, 30, 60, 130, 160})

PreferentialIncomes == {D(1)} \cup Amounts({0 - 1, 0, 2, 10, 60, 110})

StackingPositions(filing_status) ==
  NearThresholds(LTCG_BRACKETS[GridStatus(filing_status)]) \cup Amounts({0, 4, 50, 125})

TotalIncomes(filing_status) ==
  {NC_STANDARD_DEDUCTIONS[GridStatus(filing_status)]} \cup Amounts({0 - 2, 0, 1, 3, 20})

\* Arguments of the tax engine
ShortTermGains == Amounts({0 - 4, 0, 3})

LongTermGains == Amounts({0, 2, 10, 70})

DividendIncomes == Amounts({0, 1})

InterestIncomes == Amounts({0, 2})

AdditionalIncomes == Amounts({0, 3, 6, 12, 40, 80})

Deductions == {None, Some(Zero)} \cup {Some(x) : x \in Amounts({3, 8})}

Withholdings == {Zero, D(Unit)}

PriorYearTaxes == {None, Some(Zero), Some(D(4000))}

\* Arguments of the quarterly evaluator
FederalTaxes == {Zero, D(999), D(1000), DC(5161, 50), D(6000), D(20000)}

QuarterlyWithholdings ==
  {Zero, D(1), D(1000), D(4000), DC(4645, 35), D(Unit), D(5400), D(18000),
   D(25000)}

QuarterlyPriorYearTaxes ==
  {None, Some(Zero), Some(D(3000)), Some(D(4000)), Some(D(Unit)), Some(D(30000))}

\* Arguments of the Roth solver
CurrentMagis == Amounts({0 - 1, 0, 6, 10})

TargetMagis == {None} \cup {Some(x) : x \in Amounts({0 - 2, 0, 6, 10, 24})}

RothShortTermGains == Amounts({0 - 4, 0})

RothLongTermGains == Amounts({0, 10})

RothInterestIncomes == Amounts({0, 2})

RothAdditionalIncomes == Amounts({0, 6, 40})

RothDeductions == {None, Some(D(8 * Unit))}

\* MAGIs on and next to every bound of the table scanned for the status,
\* the last bound included, and a zero and a negative one
IrmaaMagis(filing_status) ==
  {D(IrmaaTable(filing_status)[i][1].w + d) :
     i \in 1..Len(IrmaaTable(filing_status)), d \in {0 - Delta, 0, Delta}}
    \cup Amounts({0 - 1, 0})

\* Investment data of a calculator: up to MaxGains realized gains and up to
\* MaxTransactions income transactions
MaxGains == 2

MaxTransactions == 1

\* The lists of at most n rows drawn from the rows of a list, in the order
\* of that list: the sums over a list do not depend on the order of its rows
RowsUpTo(rows, n) ==
  {[i \in DOMAIN picks |-> rows[picks[i]]] :
     picks \in UNION {{p \in [1..k -> 1..Len(rows)] :
                         \A i \in 1..k, j \in 1..k : i <= j => p[i] <= p[j]} :
                      k \in 0..n}}

RealizedGains ==
  <<[term |-> "Short Term", short_term_gain_loss |-> Some(D(0 - 4 * Unit)),
     long_term_gain_loss |-> None, is_option |-> FALSE],
    [term |-> "Short Term", short_term_gain_loss |-> Some(D(3 * Unit)),
     long_term_gain_loss |-> None, is_option |-> TRUE],
    [term |-> "Long Term", short_term_gain_loss |-> None,
     long_term_gain_loss |-> Some(D(10 * Unit)), is_option |-> FALSE]>>

IncomeTransactions ==
  <<[action |-> "Cash Dividend", amount |-> D(Unit)],
    [action |-> "Credit Interest", amount |-> D(2 * Unit)]>>

InvestmentIncomes ==
  {[realized_gains |-> g, transactions |-> t] :
     g \in RowsUpTo(RealizedGains, MaxGains),
     t \in RowsUpTo(IncomeTransactions, MaxTransactions)}

\* The form's deduction mode with its itemized amount, its withholding and
\* the prior year's tax
FormSettings ==
  {[use_standard_deduction |-> TRUE, itemized_deductions |-> Zero,
    federal_withholding |-> Zero, prior_year_tax |-> None],
   [use_standard_deduction |-> FALSE, itemized_deductions |-> D(8 * Unit),
    federal_withholding |-> Zero, prior_year_tax |-> None],
   [use_standard_deduction |-> TRUE, itemized_deductions |-> Zero,
    federal_withholding |-> D(Unit), prior_year_tax |-> None],
   [use_standard_deduction |-> FALSE, itemized_deductions |-> D(8 * Unit),
    federal_withholding |-> D(Unit), prior_year_tax |-> Some(Zero)]}

\* The seven additional-income fields of the form: none, wages alone, and
\* all seven with amounts that tell them apart
NoIncome ==
  [wages |-> Zero, business_income |-> Zero, rental_income |-> Zero,
   retirement_income |-> Zero, social_security |-> Zero, other_income |-> Zero,
   tax_exempt_interest |-> Zero]

WagesOnly == [NoIncome EXCEPT !.wages = D(12 * Unit)]

AllIncomes ==
  [wages |-> D(12 * Unit), business_income |-> D(Unit), rental_income |-> D(2 * Unit),
   retirement_income |-> D(3 * Unit), social_security |-> D(4 * Unit),
   other_income |-> D(5 * Unit), tax_exempt_interest |-> D(7 * Unit)]

\* The five adjustment fields of the form: none, an HSA contribution alone,
\* and all five with amounts that tell them apart
NoAdjustments ==
  [student_loan_interest |-> Zero, ira_contributions |-> Zero,
   hsa_contributions |-> Zero, self_employment_tax |-> Zero,
   other_adjustments |-> Zero]

HsaOnly == [NoAdjustments EXCEPT !.hsa_contributions = D(Unit)]

AllAdjustments ==
  [student_loan_interest |-> D(Unit), ira_contributions |-> D(2 * Unit),
   hsa_contributions |-> D(3 * Unit), self_employment_tax |-> D(4 * Unit),
   other_adjustments |-> D(6 * Unit)]

\* The incomes and adjustments entered together
FormAmounts ==
  {<<NoIncome, NoAdjustments>>, <<NoIncome, HsaOnly>>,
   <<WagesOnly, NoAdjustments>>, <<AllIncomes, AllAdjustments>>}

UserInputs ==
  {[filing_status |-> fs, tax_year |-> 2025, target_magi |-> target,
    wages |-> amounts[1].wages, business_income |-> amounts[1].business_income,
    rental_income |-> amounts[1].rental_income,
    retirement_income |-> amounts[1].retirement_income,
    social_security |-> amounts[1].social_security, other_income |-> amounts[1].other_income,
    tax_exempt_interest |-> amounts[1].tax_exempt_interest,
    use_standard_deduction |-> form.use_standard_deduction,
    itemized_deductions |-> form.itemized_deductions,
    student_loan_interest |-> amounts[2].student_loan_interest,
    ira_contributions |-> amounts[2].ira_contributions,
    hsa_contributions |-> amounts[2].hsa_contributions,
    self_employment_tax |-> amounts[2].self_employment_tax,
    other_adjustments |-> amounts[2].other_adjustments,
    federal_withholding |-> form.federal_withholding,
    prior_year_tax |-> form.prior_year_tax] :
     fs \in FilingStatus,
     target \in {None} \cup {Some(x) : x \in Amounts({0, 24})},
     amounts \in FormAmounts,
     form \in FormSettings}

----------------------------------------------------------------------------
(* Actions: one call of a public operation each, made by an idle caller *)

NoLocals == [none |-> TRUE]

\* No parser has been called yet
NotParsed == [gains |-> 0, transactions |-> 0, built |-> 0]

\* The functions below are called with the data they work on; no instance
\* over files is involved
Init ==
  /\ op = "idle"
  /\ args = [none |-> TRUE]
  /\ ret = None
  /\ loc = NoLocals
  /\ gains_file = None
  /\ transactions_file = None
  /\ _investment_income = None
  /\ parsed = NotParsed

CallFederalOrdinaryTax ==
  /\ op = "idle"
  /\ UNCHANGED instance
  /\  \E filing_status \in FilingStatusArguments :
    \E income \in OrdinaryIncomes(filing_status) :
      /\ op' = "calculate_federal_ordinary_tax"
      /\ args' = [taxable_ordinary_income |-> income, filing_status |-> filing_status]
      /\ ret' = calculate_federal_ordinary_tax(income, filing_status)
      /\ loc' = NoLocals

CallFederalLtcgTax ==
  /\ op = "idle"
  /\ UNCHANGED instance
  /\  \E filing_status \in FilingStatusArguments :
    \E preferential \in PreferentialIncomes,
       ordinary \in StackingPositions(filing_status) :
      /\ op' = "calculate_federal_ltcg_tax"
      /\ args' = [preferential_income |-> preferential,
                  ordinary_income |-> ordinary,
                  filing_status |-> filing_status]
      /\ ret' = calculate_federal_ltcg_tax(preferential, ordinary, filing_status)
      /\ loc' = NoLocals

CallNcStateTax ==
  /\ op = "idle"
  /\ UNCHANGED instance
  /\  \E filing_status \in FilingStatusArguments :
    \E total_income \in TotalIncomes(filing_status) :
      /\ op' = "calculate_nc_state_tax"
      /\ args' = [total_income |-> total_income, filing_status |-> filing_status]
      /\ ret' = calculate_nc_state_tax(total_income, filing_status)
      /\ loc' = NoLocals

CallGetIrmaaTier ==
  /\ op = "idle"
  /\ UNCHANGED instance
  /\  \E filing_status \in FilingStatusArguments :
    \E magi \in IrmaaMagis(filing_status) :
      /\ op' = "get_irmaa_tier"
      /\ args' = [magi |-> magi, filing_status |-> filing_status]
      /\ ret' = get_irmaa_tier(magi, filing_status)
      /\ loc' = NoLocals

CallTaxRulesGetStandardDeduction ==
  /\ op = "idle"
  /\ UNCHANGED instance
  /\  \E filing_status \in FilingStatusArguments :
      /\ op' = "TaxRules.get_standard_deduction"
      /\ args' = [filing_status |-> filing_status]
      /\ ret' = TaxRules_get_standard_deduction(filing_status)
      /\ loc' = NoLocals

CallUserInputsGetStandardDeduction ==
  /\ op = "idle"
  /\ UNCHANGED instance
  /\  \E user_inputs \in UserInputs, filing_status \in FilingStatusArguments :
      LET self == [user_inputs EXCEPT !.filing_status = filing_status]
      IN  /\ op' = "UserInputs.get_standard_deduction"
          /\ args' = [self |-> self]
          /\ ret' = get_standard_deduction(self)
          /\ loc' = NoLocals

CallQuarterlyPaymentRequirement ==
  /\ op = "idle"
  /\ UNCHANGED instance
  /\  \E total_federal_tax \in FederalTaxes,
     federal_withholding \in QuarterlyWithholdings,
     prior_year_tax \in QuarterlyPriorYearTaxes,
     filing_status \in FilingStatus :
    /\ op' = "calculate_quarterly_payment_requirement"
    /\ args' = [total_federal_tax |-> total_federal_tax,
                federal_withholding |-> federal_withholding,
                prior_year_tax |-> prior_year_tax,
                filing_status |-> filing_status]
    /\ ret' = calculate_quarterly_payment_requirement(
                total_federal_tax, federal_withholding, prior_year_tax, filing_status)
    /\ loc' = NoLocals

CallCalculateTaxes ==
  /\ op = "idle"
  /\ UNCHANGED instance
  /\  \E short_term_gains \in ShortTermGains,
     long_term_gains \in LongTermGains,
     dividend_income \in DividendIncomes,
     interest_income \in InterestIncomes,
     additional_income \in AdditionalIncomes,
     filing_status \in FilingStatusArguments,
     deduction \in Deductions,
     federal_withholding \in Withholdings,
     prior_year_tax \in PriorYearTaxes :
    /\ op' = "calculate_taxes"
    /\ args' = [short_term_gains |-> short_term_gains,
                long_term_gains |-> long_term_gains,
                dividend_income |-> dividend_income,
                interest_income |-> interest_income,
                additional_income |-> additional_income,
                filing_status |-> filing_status,
                deduction |-> deduction,
                federal_withholding |-> federal_withholding,
                prior_year_tax |-> prior_year_tax]
    /\ ret' = calculate_taxes(short_term_gains, long_term_gains, dividend_income,
                              interest_income, additional_income, filing_status,
                              deduction, federal_withholding, prior_year_tax)
    /\ loc' = TaxableSplit(short_term_gains, long_term_gains, dividend_income,
                           interest_income, additional_income, filing_status,
                           deduction)

\* The caller hands over a TaxResult it obtained from the engine for the same
\* incomes and filing status, under the deduction loc.current_deduction
CallAnalyzeRothOpportunity ==
  /\ op = "idle"
  /\ UNCHANGED instance
  /\  \E current_magi \in CurrentMagis,
     target_magi \in TargetMagis,
     short_term_gains \in RothShortTermGains,
     long_term_gains \in RothLongTermGains,
     interest_income \in RothInterestIncomes,
     additional_income \in RothAdditionalIncomes,
     filing_status \in FilingStatus,
     deduction \in RothDeductions,
     current_deduction \in RothDeductions :
    LET current_tax_result ==
          calculate_taxes(short_term_gains, long_term_gains, Zero, interest_income,
                          additional_income, filing_status, current_deduction,
                          Zero, None)
    IN  /\ op' = "analyze_roth_opportunity"
        /\ args' = [current_magi |-> current_magi,
                    target_magi |-> target_magi,
                    short_term_gains |-> short_term_gains,
                    long_term_gains |-> long_term_gains,
                    dividend_income |-> Zero,
                    interest_income |-> interest_income,
                    additional_income |-> additional_income,
                    filing_status |-> filing_status,
                    current_tax_result |-> current_tax_result,
                    deduction |-> deduction]
        /\ ret' = analyze_roth_opportunity(
                    current_magi, target_magi, short_term_gains, long_term_gains,
                    Zero, interest_income, additional_income, filing_status,
                    current_tax_result, deduction)
        /\ loc' = [current_deduction |-> current_deduction]

\* MAGICalculator.calculate on a calculator whose aggregator holds (or loads)
\* the investment income inv
CallCalculate ==
  /\ op = "idle"
  /\ UNCHANGED instance
  /\ \E inv \in InvestmentIncomes, user_inputs \in UserInputs :
       /\ op' = "calculate"
       /\ args' = [investment_income |-> inv, user_inputs |-> user_inputs]
       /\ ret' = calculate(inv, user_inputs)
       /\ loc' = [additional_income |-> get_additional_income(user_inputs),
                  deductions |-> get_deductions(user_inputs)]

\* The caller takes the result; the next call starts from scratch
Return ==
  /\ op # "idle"
  /\ UNCHANGED instance
  /\ op' = "idle"
  /\ args' = [none |-> TRUE]
  /\ ret' = None
  /\ loc' = NoLocals

Next ==
  \/ CallFederalOrdinaryTax
  \/ CallFederalLtcgTax
  \/ CallNcStateTax
  \/ CallGetIrmaaTier
  \/ CallTaxRulesGetStandardDeduction
  \/ CallUserInputsGetStandardDeduction
  \/ CallQuarterlyPaymentRequirement
  \/ CallCalculateTaxes
  \/ CallAnalyzeRothOpportunity
  \/ CallCalculate
  \/ Return

Spec == Init /\ [][Next]_vars

----------------------------------------------------------------------------
(* One MAGICalculator over two files: IncomeAggregator.load_investment_income *)
(* and the methods that call it.  A file is None when pandas.read_csv raises *)
(* on it (missing or empty), otherwise Some(rows), the rows being kept as    *)
(* the records the parsers build from them.                                  *)

\* Mutation: the files are parsed on every call
NeedsParse_Always(cache) == TRUE

\* "if self._investment_income is None"
NeedsParse(cache) == cache = None

filter_income_transactions(transactions) ==
  LET IsIncome(t) == is_dividend(t) \/ is_interest(t)
  IN  SelectSeq(transactions, IsIncome)

\* The call on an instance with the given cache, files and parser counts:
\* whether it raises, and the cache and the counts after it.  parse_gains_csv
\* runs first, so an unreadable gains file ends the call before the
\* transactions file is read; nothing is cached by a call that raises.
load_investment_income(cache, gains, transactions, counts) ==
  IF ~NeedsParse(cache)
  THEN [raised |-> FALSE, cache |-> cache, parsed |-> counts]
  ELSE IF gains = None
  THEN [raised |-> TRUE, cache |-> cache,
        parsed |-> [counts EXCEPT !.gains = @ + 1]]
  ELSE IF transactions = None
  THEN [raised |-> TRUE, cache |-> cache,
        parsed |-> [counts EXCEPT !.gains = @ + 1, !.transactions = @ + 1]]
  ELSE [raised |-> FALSE,
        cache |-> Some([realized_gains |-> gains[1],
                        transactions |-> filter_income_transactions(transactions[1])]),
        parsed |-> [gains |-> counts.gains + 1,
                    transactions |-> counts.transactions + 1,
                    built |-> counts.built + 1]]

\* MAGICalculator.get_detailed_transactions: the gains, the short-term option
\* trades among them and the income transactions (each as the record itself,
\* the report's formatting of its fields left out)
get_detailed_transactions(inv) ==
  [realized_gains |-> inv.realized_gains,
   short_term_option_trades |-> SelectSeq(inv.realized_gains, IsShortTermOption),
   income_transactions |-> inv.transactions]

\* What a call that raised hands back: the exception of the parser
Raised == [exception |-> "pandas.errors"]

\* The parsers are called at most this often in a behaviour
MaxParses == 3

GainsFiles ==
  {None,
   Some(<<[term |-> "Short Term", short_term_gain_loss |-> Some(D(3 * Unit)),
           long_term_gain_loss |-> None, is_option |-> TRUE]>>),
   Some(<<[term |-> "Long Term", short_term_gain_loss |-> None,
           long_term_gain_loss |-> Some(D(10 * Unit)), is_option |-> FALSE],
          [term |-> "Short Term", short_term_gain_loss |-> Some(D(0 - 4 * Unit)),
           long_term_gain_loss |-> None, is_option |-> FALSE]>>)}

TransactionsFiles ==
  {None,
   Some(<<[action |-> "Cash Dividend", amount |-> D(Unit)],
          [action |-> "Buy", amount |-> D(0 - 9 * Unit)]>>),
   Some(<<[action |-> "Credit Interest", amount |-> D(2 * Unit)]>>)}

\* The forms submitted to the instance
InstanceUserInputs ==
  {u \in UserInputs :
     /\ u.filing_status = "SINGLE"
     /\ u.target_magi = None
     /\ u.use_standard_deduction
     /\ u.federal_withholding = Zero
     /\ u.wages = D(12 * Unit)}

InstanceInit ==
  /\ op = "idle"
  /\ args = [none |-> TRUE]
  /\ ret = None
  /\ loc = NoLocals
  /\ gains_file \in GainsFiles
  /\ transactions_file \in TransactionsFiles
  /\ _investment_income = None
  /\ parsed = NotParsed

\* The call of load_investment_income every method below starts with
Loaded ==
  load_investment_income(_investment_income, gains_file, transactions_file, parsed)

\* The effect of that call on the instance
LoadStep ==
  /\ Loaded.parsed.gains <= MaxParses
  /\ _investment_income' = Loaded.cache
  /\ parsed' = Loaded.parsed
  /\ UNCHANGED <<gains_file, transactions_file>>

\* The files are rewritten, removed or restored between two calls
RewriteFiles ==
  /\ op = "idle"
  /\ \E g \in GainsFiles, t \in TransactionsFiles :
       /\ <<g, t>> # <<gains_file, transactions_file>>
       /\ gains_file' = g
       /\ transactions_file' = t
  /\ UNCHANGED <<op, args, ret, loc, _investment_income, parsed>>

\* A call that raises hands the parser's exception to its caller
RaisedIn(method) ==
  /\ Loaded.raised
  /\ op' = "raised"
  /\ args' = [method |-> method]
  /\ ret' = Raised
  /\ loc' = NoLocals

LoadInvestmentIncome ==
  /\ op = "idle"
  /\ LoadStep
  /\ \/ RaisedIn("load_investment_income")
     \/ /\ ~Loaded.raised
        /\ op' = "load_investment_income"
        /\ args' = [none |-> TRUE]
        /\ ret' = Loaded.cache[1]
        /\ loc' = NoLocals

\* MAGICalculator.calculate: its second load, inside get_income_breakdown,
\* finds the cache the first one filled
Calculate ==
  /\ op = "idle"
  /\ LoadStep
  /\ \/ RaisedIn("calculate")
     \/ /\ ~Loaded.raised
        /\ \E user_inputs \in InstanceUserInputs :
             /\ op' = "calculate"
             /\ args' = [investment_income |-> Loaded.cache[1],
                         user_inputs |-> user_inputs]
             /\ ret' = calculate(Loaded.cache[1], user_inputs)
             /\ loc' = [additional_income |-> get_additional_income(user_inputs),
                        deductions |-> get_deductions(user_inputs)]

GetIncomeBreakdown ==
  /\ op = "idle"
  /\ LoadStep
  /\ \/ RaisedIn("get_income_breakdown")
     \/ /\ ~Loaded.raised
        /\ \E user_inputs \in InstanceUserInputs :
             /\ op' = "get_income_breakdown"
             /\ args' = [investment_income |-> Loaded.cache[1],
                         user_inputs |-> user_inputs]
             /\ ret' = get_income_breakdown(Loaded.cache[1], user_inputs)
             /\ loc' = NoLocals

GetDetailedTransactions ==
  /\ op = "idle"
  /\ LoadStep
  /\ \/ RaisedIn("get_detailed_transactions")
     \/ /\ ~Loaded.raised
        /\ op' = "get_detailed_transactions"
        /\ args' = [investment_income |-> Loaded.cache[1]]
        /\ ret' = get_detailed_transactions(Loaded.cache[1])
        /\ loc' = NoLocals

InstanceNext ==
  \/ RewriteFiles
  \/ LoadInvestmentIncome
  \/ Calculate
  \/ GetIncomeBreakdown
  \/ GetDetailedTransactions
  \/ Return

InstanceSpec == InstanceInit /\ [][InstanceNext]_vars

----------------------------------------------------------------------------
(* Properties *)

\* The properties of the engine are stated of the calls with a member of
\* FilingStatus; the calls with another value are the subject of the
\* fallback property (C23) alone
IsTaxesCall == op = "calculate_taxes" /\ args.filing_status \in FilingStatus

IsOrdinaryCall ==
  op = "calculate_federal_ordinary_tax" /\ args.filing_status \in FilingStatus

IsLtcgCall ==
  op = "calculate_federal_ltcg_tax" /\ args.filing_status \in FilingStatus

IsQuarterlyCall == op = "calculate_quarterly_payment_requirement"

IsRothCall == op = "analyze_roth_opportunity"

IsCalculateCall == op = "calculate"

IsIrmaaCall == op = "get_irmaa_tier" /\ args.filing_status \in FilingStatus

\* C1: in calculate_taxes the deduction is applied to ordinary income first
\* and only its remainder to preferential income.  If total_income <=
\* deduction both taxable buckets are 0; otherwise taxable_ordinary =
\* max(0, ordinary_income - deduction) and taxable_preferential is the
\* preferential income when ordinary_income > deduction, else
\* max(0, preferential_income - (deduction - ordinary_income)); for every
\* filing status and every deduction, override or standard.
C1_DeductionOrdinaryFirst ==
  IsTaxesCall =>
    LET ordinary == DAdd(DAdd(args.short_term_gains, args.interest_income),
                         args.additional_income)
        preferential == DAdd(args.long_term_gains, args.dividend_income)
        deduction == IF args.deduction = None
                     THEN STANDARD_DEDUCTIONS[args.filing_status]
                     ELSE args.deduction[1]
    IN  IF DLE(DAdd(ordinary, preferential), deduction)
        THEN loc.taxable_ordinary = Zero /\ loc.taxable_preferential = Zero
        ELSE /\ loc.taxable_ordinary = DMax(Zero, DSub(ordinary, deduction))
             /\ loc.taxable_preferential =
                  IF DGT(ordinary, deduction) THEN preferential
                  ELSE DMax(Zero, DSub(preferential, DSub(deduction, ordinary)))

\* The standard deduction exceeds the ordinary income and what is left of it
\* takes a part, not all, of the preferential income
C1_Witness ==
  /\ IsTaxesCall
  /\ args.deduction = None
  /\ DGT(ret.ordinary_income, Zero)
  /\ DLT(ret.ordinary_income, ret.standard_deduction)
  /\ DGT(loc.taxable_preferential, Zero)
  /\ DLT(loc.taxable_preferential, ret.preferential_income)

\* C2: for non-negative long-term gains, dividends, interest, additional
\* income and deduction and short-term gains of any sign, calculate_taxes
\* never produces a negative taxable amount: taxable_ordinary >= 0,
\* taxable_preferential >= 0 and TaxResult.taxable_income >= 0.
C2_TaxableNeverNegative ==
  IsTaxesCall =>
    /\ DGE(loc.taxable_ordinary, Zero)
    /\ DGE(loc.taxable_preferential, Zero)
    /\ DGE(ret.taxable_income, Zero)

\* A net short-term loss makes the ordinary income negative while the total
\* income still exceeds the deduction
C2_Witness ==
  /\ IsTaxesCall
  /\ DLT(args.short_term_gains, Zero)
  /\ DLT(ret.ordinary_income, Zero)
  /\ DGT(ret.taxable_income, Zero)
  /\ DGT(loc.taxable_preferential, Zero)

\* The brackets of a table: bracket i reaches from the previous threshold
\* (0 for the first) up to its own threshold
Lower(brackets, i) == IF i = 1 THEN Zero ELSE brackets[i - 1][1]

Upper(brackets, i) == brackets[i][1]

\* Length of the part of the interval [from, to] lying in bracket i
PartInBracket(brackets, i, from, to) ==
  DMax(Zero, DSub(DMin(to, Upper(brackets, i)), DMax(from, Lower(brackets, i))))

\* Sum over the brackets 1..n of rate_i times the part of [from, to] in bracket i
RECURSIVE BracketSum(_, _, _, _)
BracketSum(brackets, n, from, to) ==
  IF n = 0 THEN Zero
  ELSE DAdd(BracketSum(brackets, n - 1, from, to),
            DMulRate(PartInBracket(brackets, n, from, to), brackets[n][2]))

\* Rate of the bracket an income belongs to, a threshold belonging to the
\* bracket below it
RateAt(brackets, income) ==
  LET i == CHOOSE j \in 1..Len(brackets) :
             DLT(Lower(brackets, j), income) /\ DLE(income, Upper(brackets, j))
  IN  brackets[i][2]

OrdinaryTaxOf(income, filing_status) ==
  LET brackets == FEDERAL_BRACKETS[filing_status]
  IN  IF DLE(income, Zero) THEN <<Zero, 0>>
      ELSE <<BracketSum(brackets, Len(brackets), Zero, income), RateAt(brackets, income)>>

\* C3: for taxable ordinary income T > 0 calculate_federal_ordinary_tax
\* returns the sum over the status's brackets of rate_i times the part of T
\* between the previous threshold and threshold_i, and as marginal rate the
\* rate of the highest bracket containing part of T (a T equal to a threshold
\* belongs to the lower bracket); for T <= 0 it returns tax 0 and rate 0.
\* The same holds of the ordinary tax and marginal rate of calculate_taxes.
C3_OrdinaryTaxIsBracketSum ==
  /\ IsOrdinaryCall =>
       ret = OrdinaryTaxOf(args.taxable_ordinary_income, args.filing_status)
  /\ IsTaxesCall =>
       LET expected == OrdinaryTaxOf(loc.taxable_ordinary, args.filing_status)
       IN  /\ ret.federal_ordinary_tax = expected[1]
           /\ ret.federal_marginal_rate = RatePercent(expected[2])

\* An income exactly on the second threshold: two brackets are taxed and the
\* marginal rate is the second bracket's
C3_Witness ==
  /\ IsOrdinaryCall
  /\ args.taxable_ordinary_income = FEDERAL_BRACKETS[args.filing_status][2][1]
  /\ ret[2] = FEDERAL_BRACKETS[args.filing_status][2][2]
  /\ DGT(ret[1], DMulRate(FEDERAL_BRACKETS[args.filing_status][1][1],
                          FEDERAL_BRACKETS[args.filing_status][1][2]))

LtcgTaxOf(preferential, ordinary, filing_status) ==
  LET brackets == LTCG_BRACKETS[filing_status]
  IN  IF DLE(preferential, Zero) THEN Zero
      ELSE BracketSum(brackets, Len(brackets), ordinary, DAdd(ordinary, preferential))

\* C4: calculate_federal_ltcg_tax taxes preferential income P as if stacked
\* on top of ordinary income O in the preferential bracket table: the result
\* is the sum over the preferential brackets of rate_i times the length of
\* the overlap of [O, O+P] with bracket i, and 0 when P <= 0.  The same holds
\* of the preferential tax of calculate_taxes, stacked on taxable_ordinary.
C4_LtcgTaxIsStackedOverlap ==
  /\ IsLtcgCall =>
       ret = LtcgTaxOf(args.preferential_income, args.ordinary_income,
                       args.filing_status)
  /\ IsTaxesCall =>
       ret.federal_preferential_tax =
         LtcgTaxOf(loc.taxable_preferential, loc.taxable_ordinary, args.filing_status)

\* Preferential income that starts inside the first bracket, on top of a
\* positive ordinary income, and ends in the third
C4_Witness ==
  /\ IsLtcgCall
  /\ DGT(args.ordinary_income, Zero)
  /\ DLT(args.ordinary_income, LTCG_BRACKETS[args.filing_status][1][1])
  /\ DGT(DAdd(args.ordinary_income, args.preferential_income),
         LTCG_BRACKETS[args.filing_status][2][1])
  /\ DGT(ret, Zero)

\* C5: analyze_roth_opportunity returns no suggestion exactly when
\* target_magi is unset or target_magi <= current_magi; for every other pair,
\* that is every current_magi (positive, zero or negative) and every supplied
\* target_magi above it, it returns a suggestion whose suggested_conversion
\* is target_magi - current_magi.  MAGICalculator.calculate exposes the same
\* rule through MAGIResult.roth_suggestion, for user_inputs.target_magi and
\* the magi it computed.
RothRule(current_magi, target_magi, suggestion) ==
  LET above == /\ target_magi # None
               /\ DGT(target_magi[1], current_magi)
  IN  /\ (suggestion = None) <=> ~above
      /\ suggestion # None =>
           suggestion[1].suggested_conversion = DSub(target_magi[1], current_magi)

C5_SuggestionIffTargetAbove ==
  /\ IsRothCall => RothRule(args.current_magi, args.target_magi, ret)
  /\ IsCalculateCall =>
       RothRule(ret.magi, args.user_inputs.target_magi, ret.roth_suggestion)

\* C6: when a suggestion is returned, conversion_tax is new_total_tax -
\* current_total_tax, where new_total_tax is the federal plus state tax of
\* the engine run on the same gains, dividends, interest, filing status and
\* deduction with additional_income increased by suggested_conversion, and
\* current_total_tax is the total_tax of the TaxResult passed in.
C6_ConversionTaxIsTotalTaxDelta ==
  (IsRothCall /\ ret # None) =>
    LET rerun == calculate_taxes(
                   args.short_term_gains, args.long_term_gains, args.dividend_income,
                   args.interest_income,
                   DAdd(args.additional_income, ret[1].suggested_conversion),
                   args.filing_status, args.deduction, Zero, None)
        new_total_tax == DAdd(rerun.total_federal_tax, rerun.state_tax)
    IN  /\ ret[1].new_total_tax = new_total_tax
        /\ ret[1].conversion_tax =
             DSub(new_total_tax, args.current_tax_result.total_tax)

\* A suggestion under an itemized deduction above the standard one, with both
\* federal and state tax rising
C6_Witness ==
  /\ IsRothCall
  /\ ret # None
  /\ args.deduction # None
  /\ DGT(args.deduction[1], STANDARD_DEDUCTIONS[args.filing_status])
  /\ DGT(ret[1].new_federal_tax, ret[1].current_federal_tax)
  /\ DGT(ret[1].new_state_tax, ret[1].current_state_tax)
  /\ DGT(ret[1].conversion_tax, Zero)

\* C7: for every suggestion whose current TaxResult the engine computed from
\* the same five income categories, filing status and deduction that are
\* passed to the solver, conversion_tax >= 0.
C7_ConversionTaxNonNegative ==
  (IsRothCall /\ ret # None /\ loc.current_deduction = args.deduction) =>
    DGE(ret[1].conversion_tax, Zero)

\* A conversion on top of a net short-term loss, taxed more than nothing
C7_Witness ==
  /\ IsRothCall
  /\ ret # None
  /\ loc.current_deduction = args.deduction
  /\ DLT(args.short_term_gains, Zero)
  /\ DGT(ret[1].suggested_conversion, Zero)
  /\ DGT(ret[1].conversion_tax, Zero)

\* The evaluations of the quarterly rule in the current state, each as
\* <<total_federal_tax, federal_withholding, prior_year_tax, info>>: the
\* direct call, or the one calculate_taxes makes for its TaxResult
QuarterlyEvaluations ==
  IF IsQuarterlyCall
  THEN {<<args.total_federal_tax, args.federal_withholding, args.prior_year_tax, ret>>}
  ELSE IF IsTaxesCall
  THEN {<<ret.total_federal_tax, args.federal_withholding, args.prior_year_tax,
          ret.quarterly_payment_info>>}
  ELSE {}

Underpayment(q) == DSub(q[1], q[2])

NinetyPercent(tax) == DMulRate(tax, 9000)

\* C8: whenever total_federal_tax - federal_withholding < 1000 the evaluator
\* returns required = false, estimated_payment = 0 and safe_harbor_amount =
\* 0, whatever the withholding and prior_year_tax are; in particular required
\* is false whenever federal_withholding >= total_federal_tax.
C8_BelowThousandNotRequired ==
  \A q \in QuarterlyEvaluations :
    /\ DLT(Underpayment(q), D(1000)) =>
         /\ q[4].required = FALSE
         /\ q[4].estimated_payment = Zero
         /\ q[4].safe_harbor_amount = Zero
    /\ DGE(q[2], q[1]) => q[4].required = FALSE

\* A positive underpayment below 1000 with a withholding that is short of
\* both 90% of the tax and the prior year's tax
C8_Witness ==
  /\ IsQuarterlyCall
  /\ DGT(Underpayment(<<args.total_federal_tax, args.federal_withholding>>), Zero)
  /\ DLT(Underpayment(<<args.total_federal_tax, args.federal_withholding>>), D(1000))
  /\ DLT(args.federal_withholding, NinetyPercent(args.total_federal_tax))
  /\ args.prior_year_tax # None
  /\ DLT(args.federal_withholding, args.prior_year_tax[1])
  /\ ret.required = FALSE

\* C9: when total_federal_tax - federal_withholding >= 1000, the evaluator
\* sets safe_harbor_amount = min(90% of total_federal_tax, prior_year_tax) if
\* prior_year_tax is supplied and 90% of total_federal_tax otherwise,
\* required = (federal_withholding < safe_harbor_amount), estimated_payment =
\* max(0, safe_harbor_amount - federal_withholding) / 4 and
\* total_underpayment = total_federal_tax - federal_withholding.
C9_SafeHarborRule ==
  \A q \in QuarterlyEvaluations :
    DGE(Underpayment(q), D(1000)) =>
      LET safe == IF q[3] # None THEN DMin(NinetyPercent(q[1]), q[3][1])
                  ELSE NinetyPercent(q[1])
      IN  /\ q[4].safe_harbor_amount = safe
          /\ q[4].required = DLT(q[2], safe)
          /\ q[4].estimated_payment = DDivInt(DMax(Zero, DSub(safe, q[2])), 4)
          /\ q[4].total_underpayment = Underpayment(q)

\* C10: a prior_year_tax of zero is a supplied value: with prior_year_tax = 0
\* and an underpayment of at least 1000 the safe harbor amount is
\* min(90% of current-year tax, 0) = 0, so required is false and
\* estimated_payment is 0, whereas with prior_year_tax absent it is 90% of
\* the current-year tax.
C10_ZeroPriorYearTaxIsSupplied ==
  \A q \in QuarterlyEvaluations :
    DGE(Underpayment(q), D(1000)) =>
      /\ q[3] = Some(Zero) =>
           /\ q[4].safe_harbor_amount = Zero
           /\ q[4].required = FALSE
           /\ q[4].estimated_payment = Zero
      /\ q[3] = None => q[4].safe_harbor_amount = NinetyPercent(q[1])

\* The sum of the five income categories passed to calculate_taxes
ArgsTotalIncome ==
  DAdd(DAdd(DAdd(args.short_term_gains, args.interest_income), args.additional_income),
       DAdd(args.long_term_gains, args.dividend_income))

\* C11: the state tax is state_taxable_income times the flat rate 4.75%,
\* where state_taxable_income = max(0, total_income - state standard
\* deduction of the filing status); the base is the total income, so for
\* fixed incomes and filing status the state tax is the same for every
\* federal deduction passed to calculate_taxes.
C11_StateTaxOnTotalIncome ==
  IsTaxesCall =>
    LET base == DMax(Zero, DSub(ArgsTotalIncome,
                                NC_STANDARD_DEDUCTIONS[args.filing_status]))
    IN  /\ ret.state_taxable_income = base
        /\ ret.state_tax = DMulRate(base, 475)
        /\ \A deduction \in Deductions :
             calculate_taxes(args.short_term_gains, args.long_term_gains,
                             args.dividend_income, args.interest_income,
                             args.additional_income, args.filing_status,
                             deduction, args.federal_withholding,
                             args.prior_year_tax).state_tax = ret.state_tax

\* A federal deduction override that differs from the state's deduction, with
\* a state tax due on a base other than the federally taxable income
C11_Witness ==
  /\ IsTaxesCall
  /\ args.deduction # None
  /\ DGT(ret.state_tax, Zero)
  /\ ret.state_taxable_income # ret.taxable_income
  /\ DGT(ret.taxable_income, Zero)

\* C12: every TaxResult of calculate_taxes satisfies ordinary_income =
\* short_term_gains + interest_income + additional_income,
\* preferential_income = long_term_gains + dividend_income, total_income =
\* ordinary_income + preferential_income, total_federal_tax =
\* federal_ordinary_tax + federal_preferential_tax, total_tax =
\* total_federal_tax + state_tax and after_tax_income = total_income -
\* total_tax.
C12_TaxResultIdentities ==
  IsTaxesCall =>
    /\ ret.ordinary_income =
         DAdd(DAdd(args.short_term_gains, args.interest_income), args.additional_income)
    /\ ret.preferential_income = DAdd(args.long_term_gains, args.dividend_income)
    /\ ret.total_income = DAdd(ret.ordinary_income, ret.preferential_income)
    /\ ret.total_federal_tax =
         DAdd(ret.federal_ordinary_tax, ret.federal_preferential_tax)
    /\ ret.total_tax = DAdd(ret.total_federal_tax, ret.state_tax)
    /\ ret.after_tax_income = DSub(ret.total_income, ret.total_tax)

\* All five income categories are present and each of the three taxes is due
C12_Witness ==
  /\ IsTaxesCall
  /\ args.short_term_gains # Zero /\ args.interest_income # Zero
  /\ args.additional_income # Zero /\ args.long_term_gains # Zero
  /\ args.dividend_income # Zero
  /\ DGT(ret.federal_ordinary_tax, Zero)
  /\ DGT(ret.federal_preferential_tax, Zero)
  /\ DGT(ret.state_tax, Zero)

C14_EngineAppliesResolvedDeduction ==
  IsCalculateCall =>
    ret.tax_result.standard_deduction =
      IF args.user_inputs.use_standard_deduction
      THEN STANDARD_DEDUCTIONS[args.user_inputs.filing_status]
      ELSE args.user_inputs.itemized_deductions

\* C15: the QuarterlyPaymentInfo in the TaxResult of MAGICalculator.calculate
\* is the quarterly evaluator's output for that TaxResult's
\* total_federal_tax with the user's federal_withholding and prior_year_tax.
C15_QuarterlyUsesUserWithholding ==
  IsCalculateCall =>
    ret.tax_result.quarterly_payment_info =
      calculate_quarterly_payment_requirement(
        ret.tax_result.total_federal_tax, args.user_inputs.federal_withholding,
        args.user_inputs.prior_year_tax, args.user_inputs.filing_status)

\* C16: for every filing status the federal ordinary tax of
\* calculate_federal_ordinary_tax is monotonically non-decreasing in the
\* taxable ordinary income over all non-negative incomes: I1 <= I2 implies
\* tax(I1) <= tax(I2).
C16_OrdinaryTaxMonotone ==
  IsOrdinaryCall =>
    \A lower \in OrdinaryIncomes(args.filing_status) :
      (DGE(lower, Zero) /\ DLE(lower, args.taxable_ordinary_income)) =>
        DLE(calculate_federal_ordinary_tax(lower, args.filing_status)[1], ret[1])

\* A positive income of the grid in a lower bracket pays strictly less than
\* the income of the call
C16_Witness ==
  /\ IsOrdinaryCall
  /\ \E lower \in OrdinaryIncomes(args.filing_status) :
       LET below == calculate_federal_ordinary_tax(lower, args.filing_status)
       IN  /\ DGT(lower, Zero)
           /\ DLT(lower, args.taxable_ordinary_income)
           /\ below[2] < ret[2]
           /\ DGT(below[1], Zero)
           /\ DLT(below[1], ret[1])

\* C17: for a fixed filing status and a fixed preferential amount P >= 0 the
\* preferential tax of calculate_federal_ltcg_tax is monotonically
\* non-decreasing in the stacking position: for ordinary incomes
\* 0 <= O <= O', the tax of P stacked on O' is at least that of P stacked on O.
C17_LtcgTaxMonotoneInStacking ==
  (IsLtcgCall /\ DGE(args.preferential_income, Zero)) =>
    \A lower \in StackingPositions(args.filing_status) :
      (DGE(lower, Zero) /\ DLE(lower, args.ordinary_income)) =>
        DLE(calculate_federal_ltcg_tax(args.preferential_income, lower,
                                       args.filing_status),
            ret)

\* The same preferential amount pays something on a lower stacking position
\* of the grid and strictly more on the position of the call
C17_Witness ==
  /\ IsLtcgCall
  /\ DGT(args.preferential_income, Zero)
  /\ \E lower \in StackingPositions(args.filing_status) :
       LET below == calculate_federal_ltcg_tax(args.preferential_income, lower,
                                               args.filing_status)
       IN  /\ DGT(lower, Zero)
           /\ DLT(lower, args.ordinary_income)
           /\ DGT(below, Zero)
           /\ DLT(below, ret)

\* C18: get_irmaa_tier returns, for a MAGI and a filing status, the label of
\* the first tier in the status's ascending threshold table whose upper
\* bound is >= MAGI (a MAGI equal to a bound belongs to the lower tier), and
\* Tier 5 when no bound is >= MAGI; for the statuses without a table of
\* their own (Head of Household, Qualifying Widow) it returns the same tier
\* as for Single.
C18_IrmaaTierLookup ==
  IsIrmaaCall =>
    LET unlisted == args.filing_status \in {"HEAD_OF_HOUSEHOLD", "QUALIFYING_WIDOW"}
        table == IRMAA_THRESHOLDS[IF unlisted THEN "SINGLE" ELSE args.filing_status]
        reaching == {i \in 1..Len(table) : DGE(table[i][1], args.magi)}
    IN  /\ ret = IF reaching = {} THEN "Tier 5"
                 ELSE table[CHOOSE i \in reaching : \A j \in reaching : i <= j][2]
        /\ unlisted => ret = get_irmaa_tier(args.magi, "SINGLE")

\* A MAGI equal to the bound of Tier 1, for a status without its own table
C18_Witness ==
  /\ IsIrmaaCall
  /\ args.filing_status = "HEAD_OF_HOUSEHOLD"
  /\ args.magi = D(133000)
  /\ ret = "Tier 1"

\* A MAGI above every bound of the table
C18_AboveAllBounds ==
  /\ IsIrmaaCall
  /\ DGT(args.magi, D(999999999))
  /\ ret = "Tier 5"

\* A rate kept as a quotient is zero when its numerator is
IsZeroRate(rate) == rate.num = Zero /\ rate.den # Zero

\* C20: zero denominators never raise a fault.  calculate_taxes returns
\* effective_tax_rate = 0 when total_income is 0, and total_tax /
\* total_income * 100 when total_income > 0; the Roth solver returns
\* marginal_rate = 0 when suggested_conversion is 0.  No quotient of either
\* is formed over a zero denominator, and a target equal to the current MAGI
\* (a conversion of zero) ends the solver with no suggestion.
C20_ZeroDenominatorsGuarded ==
  /\ IsTaxesCall =>
       /\ ret.effective_tax_rate.den # Zero
       /\ ret.total_income = Zero => IsZeroRate(ret.effective_tax_rate)
       /\ DGT(ret.total_income, Zero) =>
            /\ ret.effective_tax_rate.num = ret.total_tax
            /\ ret.effective_tax_rate.den = ret.total_income
  /\ (IsRothCall /\ args.target_magi = Some(args.current_magi)) => ret = None
  /\ (IsRothCall /\ ret # None) =>
       /\ ret[1].marginal_rate.den # Zero
       /\ ret[1].suggested_conversion = Zero => IsZeroRate(ret[1].marginal_rate)

\* Incomes that cancel: a short-term loss against other income, total 0
C20_Witness ==
  /\ IsTaxesCall
  /\ DLT(args.short_term_gains, Zero)
  /\ ret.total_income = Zero
  /\ IsZeroRate(ret.effective_tax_rate)

\* The solver asked for a target equal to the current MAGI
C20_RothZeroGap ==
  /\ IsRothCall
  /\ args.target_magi = Some(args.current_magi)
  /\ args.current_magi # Zero
  /\ ret = None

----------------------------------------------------------------------------
(* Scenarios and edge cases of calculate_taxes *)

\* A Single filer whose only income is 60,000 of additional income, taxed
\* with the default deduction
IsWagesScenario ==
  /\ IsTaxesCall
  /\ args.filing_status = "SINGLE"
  /\ args.additional_income = D(60000)
  /\ args.short_term_gains = Zero
  /\ args.long_term_gains = Zero
  /\ args.dividend_income = Zero
  /\ args.interest_income = Zero
  /\ args.deduction = None

\* C21: for a Single filer with 60,000 of additional income, no other income
\* and the default standard deduction of 15,000, calculate_taxes yields
\* taxable income 45,000, federal ordinary tax exactly 5161.50 (11925 at 10%
\* plus 33075 at 12%), preferential tax 0 and federal marginal rate 12.
C21_SingleWagesScenario ==
  IsWagesScenario =>
    /\ ret.standard_deduction = D(15000)
    /\ ret.taxable_income = D(45000)
    /\ ret.federal_ordinary_tax = DC(5161, 50)
    /\ ret.federal_ordinary_tax =
         DAdd(DMulRate(D(11925), 1000), DMulRate(D(33075), 1200))
    /\ ret.federal_preferential_tax = Zero
    /\ ret.federal_marginal_rate = D(12)

\* The scenario is evaluated, with no withholding and no prior-year tax
C21_Witness ==
  /\ IsWagesScenario
  /\ args.federal_withholding = Zero
  /\ args.prior_year_tax = None
  /\ ret.total_federal_tax = DC(5161, 50)

\* C22: whenever total_income <= the deduction used, calculate_taxes returns
\* federal_ordinary_tax = 0, federal_preferential_tax = 0,
\* total_federal_tax = 0 and federal_marginal_rate = 0; whenever in addition
\* total_income <= the state standard deduction of the status, total_tax = 0.
C22_IncomeWithinDeductionUntaxed ==
  (IsTaxesCall /\ DLE(ret.total_income, ret.standard_deduction)) =>
    /\ ret.federal_ordinary_tax = Zero
    /\ ret.federal_preferential_tax = Zero
    /\ ret.total_federal_tax = Zero
    /\ ret.federal_marginal_rate = Zero
    /\ DLE(ret.total_income, NC_STANDARD_DEDUCTIONS[args.filing_status]) =>
         ret.total_tax = Zero

\* A Single filer with 10,000 of interest only: standard deduction 15,000,
\* state deduction 12,750
C22_Witness ==
  /\ IsTaxesCall
  /\ args.filing_status = "SINGLE"
  /\ args.interest_income = D(10000)
  /\ ret.total_income = D(10000)
  /\ args.deduction = None
  /\ ret.standard_deduction = D(15000)
  /\ NC_STANDARD_DEDUCTIONS["SINGLE"] = DC(12750, 0)
  /\ ret.total_tax = Zero

\* Income within the federal deduction but above the state deduction: no
\* federal tax, some state tax
C22_StateTaxOnly ==
  /\ IsTaxesCall
  /\ DLE(ret.total_income, ret.standard_deduction)
  /\ DGT(ret.total_income, NC_STANDARD_DEDUCTIONS[args.filing_status])
  /\ ret.total_federal_tax = Zero
  /\ DGT(ret.total_tax, Zero)

----------------------------------------------------------------------------
(* Lookups of the tables keyed by filing status *)

\* A call whose filing status is no key of the table(s) it looks up
IsUnlistedCall(name) == op = name /\ args.filing_status = NotAFilingStatus

\* C23: every lookup of a table keyed by filing status uses the Single row
\* when the filing status is not a key of that table, rather than failing or
\* returning another value: the federal ordinary brackets, the preferential
\* brackets, the federal standard deduction and the state standard deduction
\* in TaxCalculator, the IRMAA thresholds, and the standard-deduction lookups
\* TaxRules.get_standard_deduction and UserInputs.get_standard_deduction.
C23_UnlistedStatusUsesSingleRow ==
  /\ IsUnlistedCall("calculate_federal_ordinary_tax") =>
       ret = OrdinaryTaxOf(args.taxable_ordinary_income, "SINGLE")
  /\ IsUnlistedCall("calculate_federal_ltcg_tax") =>
       ret = LtcgTaxOf(args.preferential_income, args.ordinary_income, "SINGLE")
  /\ IsUnlistedCall("calculate_nc_state_tax") =>
       ret[1] = DMax(Zero, DSub(args.total_income, NC_STANDARD_DEDUCTIONS["SINGLE"]))
  /\ IsUnlistedCall("calculate_taxes") =>
       /\ args.deduction = None => ret.standard_deduction = STANDARD_DEDUCTIONS["SINGLE"]
       /\ ret.federal_ordinary_tax = OrdinaryTaxOf(loc.taxable_ordinary, "SINGLE")[1]
       /\ ret.federal_preferential_tax =
            LtcgTaxOf(loc.taxable_preferential, loc.taxable_ordinary, "SINGLE")
       /\ ret.state_taxable_income =
            DMax(Zero, DSub(ret.total_income, NC_STANDARD_DEDUCTIONS["SINGLE"]))
  /\ (op = "get_irmaa_tier" /\ args.filing_status \notin DOMAIN IRMAA_THRESHOLDS) =>
       LET table == IRMAA_THRESHOLDS["SINGLE"]
           reaching == {i \in 1..Len(table) : DGE(table[i][1], args.magi)}
       IN  ret = IF reaching = {} THEN "Tier 5"
                 ELSE table[CHOOSE i \in reaching : \A j \in reaching : i <= j][2]
  /\ IsUnlistedCall("TaxRules.get_standard_deduction") =>
       ret = TaxRules_STANDARD_DEDUCTIONS["SINGLE"]
  /\ (op = "UserInputs.get_standard_deduction"
        /\ args.self.filing_status = NotAFilingStatus) =>
       ret = TaxYearStandardDeductions["SINGLE"]

\* The lookups of TaxCalculator and of the IRMAA thresholds alone
C23_EngineAndIrmaaUseSingleRow ==
  (op \notin {"TaxRules.get_standard_deduction", "UserInputs.get_standard_deduction"})
    => C23_UnlistedStatusUsesSingleRow

\* The two standard-deduction lookups return 0 for a status that is no key
C23_StandardDeductionLookupsReturnZero ==
  /\ IsUnlistedCall("TaxRules.get_standard_deduction") => ret = Zero
  /\ (op = "UserInputs.get_standard_deduction"
        /\ args.self.filing_status = NotAFilingStatus) => ret = Zero

----------------------------------------------------------------------------
(* The bracket tables *)

\* The thresholds of a table grow strictly along it
StrictlyIncreasing(table) ==
  \A i \in 1..(Len(table) - 1) : DLT(table[i][1], table[i + 1][1])

\* The last threshold of a table is the one no amount is expected to pass
EndsUnbounded(table) ==
  /\ Len(table) > 0
  /\ table[Len(table)][1] = D(999999999)

\* The rates of a table never fall along it
Progressive(table) ==
  \A i \in 1..(Len(table) - 1) : table[i][2] <= table[i + 1][2]

\* C24: every bracket table of every filing status (federal ordinary
\* brackets, preferential brackets, IRMAA thresholds) has strictly increasing
\* thresholds ending in the effectively-infinite threshold 999999999, and the
\* rates of the two tax bracket tables are non-decreasing along the table.
\* Stated of the tables of the status of each call: the calls go through
\* every member of FilingStatus.
C24_BracketTablesOrdered ==
  /\ (IsOrdinaryCall \/ IsTaxesCall) =>
       /\ DOMAIN FEDERAL_BRACKETS = FilingStatus
       /\ StrictlyIncreasing(FEDERAL_BRACKETS[args.filing_status])
       /\ EndsUnbounded(FEDERAL_BRACKETS[args.filing_status])
       /\ Progressive(FEDERAL_BRACKETS[args.filing_status])
  /\ (IsLtcgCall \/ IsTaxesCall) =>
       /\ DOMAIN LTCG_BRACKETS = FilingStatus
       /\ StrictlyIncreasing(LTCG_BRACKETS[args.filing_status])
       /\ EndsUnbounded(LTCG_BRACKETS[args.filing_status])
       /\ Progressive(LTCG_BRACKETS[args.filing_status])
  /\ IsIrmaaCall =>
       \A filing_status \in DOMAIN IRMAA_THRESHOLDS :
         /\ StrictlyIncreasing(IRMAA_THRESHOLDS[filing_status])
         /\ EndsUnbounded(IRMAA_THRESHOLDS[filing_status])

\* A call that walks a whole table: an ordinary income in the last bracket,
\* taxed at the last and highest rate
C24_Witness ==
  /\ IsOrdinaryCall
  /\ LET brackets == FEDERAL_BRACKETS[args.filing_status]
         last == Len(brackets)
     IN  /\ DGT(args.taxable_ordinary_income, brackets[last - 1][1])
         /\ DLT(args.taxable_ordinary_income, brackets[last][1])
         /\ ret[2] = brackets[last][2]
         /\ \A i \in 1..last : brackets[i][2] <= ret[2]

----------------------------------------------------------------------------
(* The fields of a Roth suggestion *)

\* C25: when a Roth suggestion is returned, marginal_rate =
\* (conversion_tax / suggested_conversion) * 100, and the suggestion carries
\* the unchanged figures of both runs: current_total_tax, current_federal_tax
\* and current_state_tax are those of the TaxResult passed in, new_total_tax,
\* new_federal_tax and new_state_tax are those of the re-run, and
\* has_opportunity is true.
C25_SuggestionCarriesBothRuns ==
  (IsRothCall /\ ret # None) =>
    LET rerun == calculate_taxes(
                   args.short_term_gains, args.long_term_gains, args.dividend_income,
                   args.interest_income,
                   DAdd(args.additional_income, ret[1].suggested_conversion),
                   args.filing_status, args.deduction, Zero, None)
    IN  /\ ret[1].has_opportunity = TRUE
        /\ ret[1].marginal_rate.num = ret[1].conversion_tax
        /\ ret[1].marginal_rate.den = ret[1].suggested_conversion
        /\ ret[1].current_total_tax = args.current_tax_result.total_tax
        /\ ret[1].current_federal_tax = args.current_tax_result.total_federal_tax
        /\ ret[1].current_state_tax = args.current_tax_result.state_tax
        /\ ret[1].new_total_tax = rerun.total_tax
        /\ ret[1].new_federal_tax = rerun.total_federal_tax
        /\ ret[1].new_state_tax = rerun.state_tax

\* A suggestion whose conversion raises the federal and the state tax, so
\* that the figures of the two runs differ and the rate is not zero
C25_Witness ==
  /\ IsRothCall
  /\ ret # None
  /\ ret[1].has_opportunity
  /\ DGT(ret[1].new_federal_tax, ret[1].current_federal_tax)
  /\ DGT(ret[1].new_state_tax, ret[1].current_state_tax)
  /\ DGT(ret[1].current_total_tax, Zero)
  /\ DGT(ret[1].marginal_rate.num, Zero)
  /\ ret[1].marginal_rate.den # ret[1].marginal_rate.num

----------------------------------------------------------------------------
(* The reason and the figures of a QuarterlyPaymentInfo *)

\* The reasons that say payments are needed
ReasonsForPayments == {REASON_LESS_THAN_SAFE_HARBOR, REASON_LESS_THAN_CURRENT}

\* The reasons that say they are not
ReasonsForNoPayments == {REASON_BELOW_1000, REASON_MEETS_PRIOR, REASON_MEETS_CURRENT}

\* C26: the reason text of a QuarterlyPaymentInfo agrees with its required
\* flag: a reason saying that withholding is less than the safe harbor amount
\* (or less than 90% of current-year tax) is returned only when required is
\* true, and a reason saying that withholding meets a safe harbor or that the
\* underpayment is below $1,000 is returned only when required is false, for
\* every total_federal_tax, federal_withholding and prior_year_tax.
C26_ReasonAgreesWithRequired ==
  \A e \in QuarterlyEvaluations :
    /\ e[4].reason \in ReasonsForPayments \cup ReasonsForNoPayments
    /\ e[4].reason \in ReasonsForPayments => e[4].required
    /\ e[4].reason \in ReasonsForNoPayments => ~e[4].required

\* Without a prior-year tax the reason and the flag agree
C26_AgreeWithoutPriorYearTax ==
  \A e \in QuarterlyEvaluations :
    ~PriorYearTaxGiven(e[3]) =>
      /\ e[4].reason \in ReasonsForPayments => e[4].required
      /\ e[4].reason \in ReasonsForNoPayments => ~e[4].required

\* With a prior-year tax they disagree only when the withholding reaches 90%
\* of the current-year tax without reaching the prior-year tax
C26_DisagreeOnlyBetweenHarbors ==
  \A e \in QuarterlyEvaluations :
    (e[4].reason \in ReasonsForPayments /\ ~e[4].required) =>
      /\ PriorYearTaxGiven(e[3])
      /\ DGE(e[2], DMulRate(e[1], SAFE_HARBOR_RATE))
      /\ DLT(e[2], e[3][1])
      /\ e[4].reason = REASON_LESS_THAN_SAFE_HARBOR

\* C28: in every QuarterlyPaymentInfo returned by
\* calculate_quarterly_payment_requirement, required is true exactly when
\* estimated_payment > 0, and estimated_payment is never negative.
C28_RequiredIffPaymentPositive ==
  \A e \in QuarterlyEvaluations :
    /\ e[4].required <=> DGT(e[4].estimated_payment, Zero)
    /\ DGE(e[4].estimated_payment, Zero)

\* A withholding above the safe harbor with an underpayment of 1,000 or
\* more: nothing is required and the payment is 0, not negative
C28_Witness ==
  /\ IsQuarterlyCall
  /\ DGE(ret.total_underpayment, D(UNDERPAYMENT_THRESHOLD))
  /\ DGT(args.federal_withholding, ret.safe_harbor_amount)
  /\ ~ret.required
  /\ ret.estimated_payment = Zero

\* A withholding below the safe harbor: a quarter of the gap is to be paid
C28_PaymentsRequired ==
  /\ IsQuarterlyCall
  /\ ret.required
  /\ ret.estimated_payment =
       DDivInt(DSub(ret.safe_harbor_amount, args.federal_withholding), 4)
  /\ DGT(ret.estimated_payment, Zero)

----------------------------------------------------------------------------
(* The split of the deduction *)

\* C27: for non-negative preferential income, the deduction split of
\* calculate_taxes loses nothing: taxable_ordinary + taxable_preferential
\* (the two amounts handed to the federal tax functions) equals
\* TaxResult.taxable_income = max(0, total_income - deduction), also when
\* ordinary_income is negative.
C27_SplitLosesNothing ==
  (IsTaxesCall /\ DGE(ret.preferential_income, Zero)) =>
    /\ ret.taxable_income =
         DMax(Zero, DSub(ret.total_income, ret.standard_deduction))
    /\ DAdd(loc.taxable_ordinary, loc.taxable_preferential) = ret.taxable_income
    /\ ret.federal_ordinary_tax =
         calculate_federal_ordinary_tax(loc.taxable_ordinary, args.filing_status)[1]
    /\ ret.federal_preferential_tax =
         calculate_federal_ltcg_tax(loc.taxable_preferential, loc.taxable_ordinary,
                                    args.filing_status)

\* A negative ordinary income under a larger preferential income: the
\* preferential bucket absorbs the loss and the deduction
C27_Witness ==
  /\ IsTaxesCall
  /\ DLT(ret.ordinary_income, Zero)
  /\ DGT(ret.preferential_income, Zero)
  /\ DGT(ret.standard_deduction, Zero)
  /\ loc.taxable_ordinary = Zero
  /\ DGT(loc.taxable_preferential, Zero)
  /\ loc.taxable_preferential = ret.taxable_income
  /\ DLT(loc.taxable_preferential, DSub(ret.preferential_income, ret.standard_deduction))

----------------------------------------------------------------------------
(* The income of a MAGIResult *)

\* C29: in every MAGIResult returned by MAGICalculator.calculate, the
\* aggregator's total_income equals the embedded TaxResult.total_income: the
\* investment plus additional income that feeds AGI and MAGI is the same
\* amount the tax engine taxes.
C29_AggregatorAndEngineTotalsAgree ==
  IsCalculateCall => ret.total_income = ret.tax_result.total_income

\* A call with realized gains, dividends or interest, and declared income
C29_Witness ==
  /\ IsCalculateCall
  /\ args.investment_income.realized_gains # << >>
  /\ args.investment_income.transactions # << >>
  /\ DGT(args.user_inputs.wages, Zero)
  /\ DGT(ret.tax_result.preferential_income, Zero)
  /\ ret.total_income = ret.tax_result.total_income

----------------------------------------------------------------------------
(* The cache of an IncomeAggregator *)

\* The investment data a call of the instance worked on
IsInstanceCall ==
  op \in {"load_investment_income", "calculate", "get_income_breakdown",
          "get_detailed_transactions"}

\* What the files hold now, as load_investment_income would build it
FreshInvestmentIncome ==
  [realized_gains |-> gains_file[1],
   transactions |-> filter_income_transactions(transactions_file[1])]

\* The figures of the latest call are those of the cached snapshot
FiguresFromCache ==
  (_investment_income # None /\ IsInstanceCall) =>
    LET snapshot == _investment_income[1]
    IN  /\ op = "load_investment_income" => ret = snapshot
        /\ op = "calculate" =>
             /\ args.investment_income = snapshot
             /\ ret = calculate(snapshot, args.user_inputs)
        /\ op = "get_income_breakdown" =>
             ret = get_income_breakdown(snapshot, args.user_inputs)
        /\ op = "get_detailed_transactions" =>
             ret = get_detailed_transactions(snapshot)

\* C30, as stated: an IncomeAggregator parses the two CSV sources at most
\* once: after the first load_investment_income call, every later call on the
\* same instance (from calculate, get_income_breakdown or
\* get_detailed_transactions, in any order) returns the same cached
\* InvestmentIncome without re-reading, so all figures of one MAGICalculator
\* instance are computed from one snapshot of the data.
C30_ParsedAtMostOnce ==
  /\ parsed.gains <= 1
  /\ parsed.transactions <= 1
  /\ IsInstanceCall => _investment_income # None
  /\ FiguresFromCache

\* C30, amended: an IncomeAggregator builds its InvestmentIncome at most
\* once: after the first load_investment_income call that returns, every
\* later call on the same instance returns the same cached InvestmentIncome
\* without calling a parser, whatever the files hold by then, so all figures
\* of one MAGICalculator instance are computed from one snapshot of the data.
\* A call that raises (a file that cannot be read) caches nothing, and the
\* next call reads the files again.
C30_BuiltAtMostOnce ==
  /\ [](/\ parsed.built <= 1
        /\ parsed.built = 1 <=> _investment_income # None
        /\ IsInstanceCall => _investment_income # None
        /\ FiguresFromCache)
  /\ [][_investment_income # None =>
          /\ _investment_income' = _investment_income
          /\ parsed' = parsed]_vars
  /\ [][(_investment_income = None /\ op = "idle" /\ op' = "raised") =>
          /\ _investment_income' = None
          /\ parsed'.gains = parsed.gains + 1]_vars

\* Figures computed from the cache after both files were rewritten: the
\* parsers ran once and a fresh parse would give other figures
C30_Witness ==
  /\ _investment_income # None
  /\ op = "calculate"
  /\ parsed = [gains |-> 1, transactions |-> 1, built |-> 1]
  /\ gains_file # None
  /\ transactions_file # None
  /\ FreshInvestmentIncome.realized_gains # _investment_income[1].realized_gains
  /\ FreshInvestmentIncome.transactions # _investment_income[1].transactions
  /\ ret = calculate(_investment_income[1], args.user_inputs)
  /\ ret.total_income # calculate(FreshInvestmentIncome, args.user_inputs).total_income

\* A load that succeeded after one that raised: the gains file was parsed
\* twice, the InvestmentIncome built once
C30_LoadedAfterFailure ==
  /\ _investment_income # None
  /\ IsInstanceCall
  /\ parsed.gains = 2
  /\ parsed.built = 1

====
